---- MODULE Spec2Model ----
(***************************************************************************)
(* A model of the Verific front end of yosys                               *)
(* (frontends/verific/verific.cc): the import work-list of                 *)
(* VerificPass::execute, one VerificImporter::import_netlist pass over the *)
(* ports and nets of a netlist, VerificExtNets, VerificSvaImporter and     *)
(* merge_past_ffs.  Each part has its own specification over its own       *)
(* variables; the variables of the other parts stay at their idle values.  *)
(***************************************************************************)
EXTENDS Integers, Sequences, FiniteSets, TLC

VARIABLES
    \* ---- VerificPass::execute, the -import work-list
    refs,          \* source graph: refs[<<n, m>>] = instances of netlist m inside netlist n
    is_operator,   \* source graph: nl->IsOperator()
    design,        \* RTLIL::Design: the names of its modules, in order of addition
    cells,         \* the cells added to the modules created by this run
    nl_todo,       \* std::set<Netlist*> nl_todo
    nl_done,       \* std::set<Netlist*> nl_done
    calls,         \* calls[n]: how often import_netlist was called for n
    imported,      \* netlists for which this run created a module
    skipped,       \* netlists popped from nl_todo while already in nl_done
    status,        \* "running", "done" (check_error reached) or "fatal"
    \* ---- one VerificImporter::import_netlist pass: ports, nets and net_map
    src_net,       \* source graph: for each net its owner, ports and buses
    net_map,       \* std::map<Net*, RTLIL::SigBit> net_map
    conns,         \* the connections added with module->connect
    lookups,       \* the calls of net_map_at so far, each with what it gave
    relooked,      \* the nets for which net_map_at was called more than once
    nm_i,          \* the position in the loop import_netlist is in
    nm_pc,         \* the loop import_netlist is in, "done" or "fatal"
    \* ---- VerificExtNets
    en_insts,      \* source graph: Owner() and View() of each instance
    net_owner,     \* source graph: net_owner[n] = Owner() of net n
    portrefs,      \* source graph: portrefs[i] = GetNet() of the port reference of instance i
    new_ports,     \* the ports added with nl->Add(new_port), with the net connected to each
    new_portrefs,  \* the port references added with up_inst->Connect(new_port, new_net)
    portname_cnt,  \* int portname_cnt
    net_level_up,  \* std::map<Net*, Net*> net_level_up
    run_order,     \* the calls run(nl) that have not finished, in the order of their second loop
    en_todo,       \* the instances the second loop of run(nl) has still to visit
    walk,          \* the while loop in progress: its instance, first net, net and steps
    todo_connect,  \* vector<tuple<Instance*, Port*, Net*>> todo_connect
    fixed,         \* the entries of todo_connect that have been reconnected
    en_pc,         \* "run" between two calls, "loop" in the second loop, "walk" in the while loop
    \* ---- VerificSvaImporter
    sva_prop,      \* source graph: the property below root, its clock edge and the modes
    sva_cells,     \* the cells VerificSvaImporter::run added to the module, in order
    sva_log,       \* the calls of parse_sequence and sequence_ff, in order
    sva_seq,       \* sequence_t seq of run: length, sig_a, sig_en
    sva_warn,      \* the number of log_warning calls
    sva_pc,        \* "idle", "root" before run, then "done" or "fatal" (log_error)
    sim_regs,      \* simulation of the module: the value of each register output
    sim_cycle,     \* simulation: the number of active clock edges so far
    sim_hist,      \* simulation: the inputs at the last clock edges, newest first
    \* ---- merge_past_ffs
    past_ffs,      \* pool<RTLIL::Cell*> past_ffs: clock, polarity and D of each single-bit $dff
    mod_ffs,       \* the $dff cells of the module
    mod_conns,     \* the connections added with module->connect(old_q, new_q)
    database,      \* the keys of database that merge_past_ffs has still to go through
    candidates,    \* pool<RTLIL::Cell*> candidates of merge_past_ffs_clock
    sigmap,        \* SigMap sigmap of merge_past_ffs_clock
    mg_iter,       \* the turns of while (keep_running) made for the current key
    mg_new,        \* the number of wires made with NEW_ID
    mg_log,        \* the merges so far: run, turn, D bits, new wire and replaced cells
    mg_run,        \* 1 in merge_past_ffs(past_ffs), 2 in a second call for the cells left
    mg_snap,       \* the $dff cells and connections of the module when the second call began
    mg_pc,         \* "idle", "database", "loop", "exit" (loop left) or "done"
    \* ---- import_netlist_instance_gates / import_netlist_instance_cells
    lw_inst,       \* source graph: the type and the connected pins of one instance
    lw_in,         \* the values on the input nets of the instance
    lw_gates,      \* what import_netlist_instance_gates returned and added to its module
    lw_cells,      \* what import_netlist_instance_cells returned and added to its module
    lw_pc,         \* "idle", or "inst" once the instance is there
    \* ---- VerificClockEdge
    ce_drivers,    \* source graph: Driver() and IsMultipleDriven() of each net
    ce_ext,        \* source graph: net 1 belongs to another netlist
    ce_inst,       \* the node VerificClockEdge is given
    ce_res,        \* how the constructor ended, and clock_net, clock_sig and posedge
    ce_pc,         \* "idle", "node" before the constructor runs, "done" after it
    \* ---- import_netlist: the RAM net and the loop over the instances
    il_args,       \* the options of -import
    il_modes,      \* mode_gates, mode_keep, mode_nosva, mode_nosvapp of the importer
    il_insts,      \* source graph: the instances of the netlist, in the order of the loop
    il_ram,        \* source graph: Size() of the RAM net and whether another instance is on it
    il_memory,     \* RTLIL::Memory of the RAM net: width and size
    il_cells,      \* the cells added to the module, in order
    il_conns,      \* the connections added to the module
    il_sva,        \* sva_asserts, sva_assumes, sva_covers
    il_past_ffs,   \* pool<RTLIL::Cell*> past_ffs, by instance
    il_todo,       \* what the loop inserted into nl_todo
    il_warn,       \* the log_warning calls, in order
    il_calls,      \* the calls of svapp_*, import_sva_* and merge_past_ffs
    il_i,          \* the instance the loop is at
    il_pc,         \* "idle", "nets", "insts", "sva", "done" or "fatal" (log_error)
    \* ---- one "verific" command: VerificPass::execute and msg_func
    cm_args,            \* the mode and the options of the command line
    cm_pc,              \* the place execute is at; "done" or "fatal" at its end
    verific_error_msg,  \* string verific_error_msg
    cm_errs,            \* the texts of the ERROR and PROGRAM_ERROR messages so far, in order
    cm_nmsg,            \* the number of msg_func calls so far
    cm_fatal,           \* the text of the log_error or log_cmd_error that ended the command
    cm_graph,           \* source graph: the changes made to it, in order
    cm_snap,            \* the source graph as the first import_netlist call found it
    cm_left,            \* the files or netlists the current for loop still has to visit
    cm_todo,            \* std::set<Netlist*> nl_todo
    cm_done,            \* std::set<Netlist*> nl_done
    cm_module,          \* the cells of the module import_netlist is building
    cm_roots            \* <<n, i>>: the netlist has n assert, assume and cover roots, svapp_* was called for i

importVars == <<refs, is_operator, design, cells, nl_todo, nl_done, calls,
                imported, skipped, status>>

netVars == <<src_net, net_map, conns, lookups, relooked, nm_i, nm_pc>>

extVars == <<en_insts, net_owner, portrefs, new_ports, new_portrefs, portname_cnt,
             net_level_up, run_order, en_todo, walk, todo_connect, fixed, en_pc>>

svaVars == <<sva_prop, sva_cells, sva_log, sva_seq, sva_warn, sva_pc,
             sim_regs, sim_cycle, sim_hist>>

mergeVars == <<past_ffs, mod_ffs, mod_conns, database, candidates, sigmap, mg_iter,
               mg_new, mg_log, mg_run, mg_snap, mg_pc>>

lowerVars == <<lw_inst, lw_in, lw_gates, lw_cells, lw_pc>>

edgeVars == <<ce_drivers, ce_ext, ce_inst, ce_res, ce_pc>>

loopVars == <<il_args, il_modes, il_insts, il_ram, il_memory, il_cells, il_conns, il_sva,
              il_past_ffs, il_todo, il_warn, il_calls, il_i, il_pc>>

cmdVars == <<cm_args, cm_pc, verific_error_msg, cm_errs, cm_nmsg, cm_fatal, cm_graph,
             cm_snap, cm_left, cm_todo, cm_done, cm_module, cm_roots>>

restVars == <<lowerVars, edgeVars, loopVars, cmdVars>>

vars == <<importVars, netVars, extVars, svaVars, mergeVars, restVars>>

(***************************************************************************)
(* Bounds of the model.                                                    *)
(***************************************************************************)
NumNetlists == 3
MaxInsts == 3
MaxOperators == 1
MaxPre == 1
NumNets == 3
MaxPins == 1
NumExtNetlists == 3
MaxExtInsts == 3
MaxSvaNodes == 1
MaxDelay == 2
MaxCycles == 3
MaxFfs == 4
VecWidth == 2
NumClocks == 1
NumEdgeNets == 3
MaxLoopInsts == 2
MaxMemPorts == 2
MaxWordWidth == 2
NumCmdNetlists == 2
MaxMsgs == 2
MaxSvaRoots == 1

Netlists == 1..NumNetlists

RECURSIVE SumOver(_, _)
SumOver(S, f) ==
    IF S = {} THEN 0
    ELSE LET x == CHOOSE y \in S : TRUE
         IN f[x] + SumOver(S \ {x}, f)

\* The variables of merge_past_ffs while another part runs.
IdleMerge ==
    /\ past_ffs = <<>>
    /\ mod_ffs = {}
    /\ mod_conns = {}
    /\ database = <<>>
    /\ candidates = {}
    /\ sigmap = <<>>
    /\ mg_iter = 0
    /\ mg_new = 0
    /\ mg_log = {}
    /\ mg_run = 0
    /\ mg_snap = [ffs |-> {}, conns |-> {}]
    /\ mg_pc = "idle"

\* The variables of VerificSvaImporter while another part runs.
IdleSva ==
    /\ sva_prop = <<>>
    /\ sva_cells = <<>>
    /\ sva_log = <<>>
    /\ sva_seq = <<>>
    /\ sva_warn = 0
    /\ sva_pc = "idle"
    /\ sim_regs = <<>>
    /\ sim_cycle = 0
    /\ sim_hist = <<>>

\* The variables of VerificExtNets while another part runs.
IdleExt ==
    /\ en_insts = <<>>
    /\ net_owner = <<>>
    /\ portrefs = <<>>
    /\ new_ports = {}
    /\ new_portrefs = {}
    /\ portname_cnt = 0
    /\ net_level_up = <<>>
    /\ run_order = <<>>
    /\ en_todo = {}
    /\ walk = <<>>
    /\ todo_connect = {}
    /\ fixed = {}
    /\ en_pc = "run"

\* The variables of the port and net pass while another part runs.
IdleNet ==
    /\ src_net = <<>>
    /\ net_map = <<>>
    /\ conns = {}
    /\ lookups = {}
    /\ relooked = {}
    /\ nm_i = 0
    /\ nm_pc = "idle"

\* The variables of the two lowerings while another part runs.
IdleLower ==
    /\ lw_inst = <<>>
    /\ lw_in = <<>>
    /\ lw_gates = <<>>
    /\ lw_cells = <<>>
    /\ lw_pc = "idle"

\* The variables of VerificClockEdge while another part runs.
IdleEdge ==
    /\ ce_drivers = <<>>
    /\ ce_ext = FALSE
    /\ ce_inst = <<>>
    /\ ce_res = <<>>
    /\ ce_pc = "idle"

\* No RAM net in the netlist, and no memory in the module.
NoRam == [bits |-> 0, other |-> FALSE]

NoMemory == [width |-> 0, size |-> 0]

\* The variables of the instance loop while another part runs.
IdleLoop ==
    /\ il_args = {}
    /\ il_modes = <<>>
    /\ il_insts = <<>>
    /\ il_ram = NoRam
    /\ il_memory = NoMemory
    /\ il_cells = <<>>
    /\ il_conns = {}
    /\ il_sva = <<>>
    /\ il_past_ffs = {}
    /\ il_todo = {}
    /\ il_warn = <<>>
    /\ il_calls = {}
    /\ il_i = 0
    /\ il_pc = "idle"

\* No snapshot of the source graph: import_netlist was not called yet.
NoSnap == <<"none">>

\* The variables of the command while another part runs.
IdleCmd ==
    /\ cm_args = <<>>
    /\ cm_pc = "idle"
    /\ verific_error_msg = ""
    /\ cm_errs = <<>>
    /\ cm_nmsg = 0
    /\ cm_fatal = ""
    /\ cm_graph = <<>>
    /\ cm_snap = NoSnap
    /\ cm_left = {}
    /\ cm_todo = {}
    /\ cm_done = {}
    /\ cm_module = {}
    /\ cm_roots = <<0, 0>>

IdleRest == IdleLower /\ IdleEdge /\ IdleLoop /\ IdleCmd

(***************************************************************************)
(* VerificPass::execute / VerificImporter::import_netlist: the hierarchy.  *)
(***************************************************************************)

\* The hierarchy is acyclic: an instance's view has a larger index than its owner.
Pairs == {p \in Netlists \X Netlists : p[1] < p[2]}

\* The hierarchical instances of netlist n: <<n, m, i>> is the i-th instance of m in n.
InstancesOf(n) ==
    {t \in {n} \X Netlists \X (1..MaxInsts) :
        /\ <<t[1], t[2]>> \in Pairs
        /\ t[3] <= refs[<<t[1], t[2]>>]}

View(inst) == inst[2]

\* nl->Owner()->Name(): distinct netlists belong to distinct cells.
OwnerName(nl) == nl

\* module_name of import_netlist.
ModuleName(nl) ==
    IF is_operator[nl] THEN <<"$verific$", OwnerName(nl)>>
    ELSE <<"\\", OwnerName(nl)>>

CellTypeNoPrefix(inst) == <<"\\", OwnerName(View(inst))>>

\* The type of the cell added for a hierarchical instance; inst->IsOperator()
\* is the view's IsOperator().
CellType(inst) ==
    IF is_operator[View(inst)] THEN <<"$verific$", OwnerName(View(inst))>>
    ELSE <<"\\", OwnerName(View(inst))>>

DesignHas(name) == \E i \in DOMAIN design : design[i] = name

NewCells(nl) ==
    {[module |-> ModuleName(nl), inst |-> inst, type |-> CellType(inst)] :
        inst \in InstancesOf(nl)}

\* import_netlist without the design->has(module_name) test.
ImportOutcomeNoLookup(nl) == "import"

\* What one call of import_netlist does: "fatal" (log_cmd_error), "return"
\* (an operator netlist met again) or "import".
ImportOutcome(nl) ==
    IF DesignHas(ModuleName(nl))
    THEN IF ~is_operator[nl] THEN "fatal" ELSE "return"
    ELSE "import"

\* The run going on after log_cmd_error or log_error.
AfterLogErrorGoOn(st) == st

\* log_cmd_error and log_error do not return: the work-list loop is left.
AfterLogError(st) == "fatal"

NotDoneAlways(nl) == TRUE

\* The guard of the work-list loop: nl_done.count(nl) == 0.
NotDone(nl) == nl \notin nl_done

\* The variables of the import work-list while another part runs.
IdleImport ==
    /\ refs = <<>>
    /\ is_operator = <<>>
    /\ design = <<>>
    /\ cells = {}
    /\ nl_todo = {}
    /\ nl_done = {}
    /\ calls = <<>>
    /\ imported = {}
    /\ skipped = {}
    /\ status = "idle"

InitImport ==
    /\ IdleNet
    /\ IdleExt
    /\ IdleSva
    /\ IdleMerge
    /\ IdleRest
    /\ refs \in [Pairs -> 0..MaxInsts]
    /\ SumOver(Pairs, refs) <= MaxInsts
    /\ is_operator \in [Netlists -> BOOLEAN]
    /\ Cardinality({n \in Netlists : is_operator[n]}) <= MaxOperators
    \* modules left in the design by an earlier command
    /\ \E pre \in SUBSET Netlists :
          /\ Cardinality(pre) <= MaxPre
          /\ \E order \in [1..Cardinality(pre) -> pre] :
                /\ \A i, j \in DOMAIN order : i < j => order[i] < order[j]
                /\ design = [i \in DOMAIN order |-> ModuleName(order[i])]
    /\ cells = {}
    \* the top modules named on the command line; netlists are numbered so
    \* that netlist 1 is a top module that no other netlist instantiates
    /\ nl_todo \in {t \in SUBSET Netlists : 1 \in t}
    /\ nl_done = {}
    /\ calls = [n \in Netlists |-> 0]
    /\ imported = {}
    /\ skipped = {}
    /\ status = "running"

\* One iteration of while (!nl_todo.empty()) whose import_netlist call
\* creates a module.
ExecuteImport ==
    /\ status = "running"
    /\ \E nl \in nl_todo :
          /\ NotDone(nl)
          /\ ImportOutcome(nl) = "import"
          /\ calls' = [calls EXCEPT ![nl] = @ + 1]
          /\ design' = Append(design, ModuleName(nl))
          /\ cells' = cells \cup NewCells(nl)
          /\ imported' = imported \cup {nl}
          /\ nl_todo' = (nl_todo \cup {View(i) : i \in InstancesOf(nl)}) \ {nl}
          /\ nl_done' = nl_done \cup {nl}
    /\ UNCHANGED <<refs, is_operator, skipped, status>>

\* One iteration whose import_netlist call returns at once: the module of an
\* operator netlist is in the design already.
ExecuteReturn ==
    /\ status = "running"
    /\ \E nl \in nl_todo :
          /\ NotDone(nl)
          /\ ImportOutcome(nl) = "return"
          /\ calls' = [calls EXCEPT ![nl] = @ + 1]
          /\ nl_todo' = nl_todo \ {nl}
          /\ nl_done' = nl_done \cup {nl}
    /\ UNCHANGED <<refs, is_operator, design, cells, imported, skipped, status>>

\* One iteration whose import_netlist call ends in log_cmd_error.
ExecuteFatal ==
    /\ status = "running"
    /\ \E nl \in nl_todo :
          /\ NotDone(nl)
          /\ ImportOutcome(nl) = "fatal"
          /\ calls' = [calls EXCEPT ![nl] = @ + 1]
    /\ status' = AfterLogError(status)
    /\ UNCHANGED <<refs, is_operator, design, cells, nl_todo, nl_done, imported, skipped>>

\* One iteration whose import_netlist call creates a module and then ends
\* in log_error at one of the ports, nets or instances of the netlist: the
\* module is in the design, with the cells added before the error.
ExecuteImportError ==
    /\ status = "running"
    /\ \E nl \in nl_todo :
          /\ NotDone(nl)
          /\ ImportOutcome(nl) = "import"
          /\ calls' = [calls EXCEPT ![nl] = @ + 1]
          /\ design' = Append(design, ModuleName(nl))
          /\ \E before \in SUBSET NewCells(nl) :
                /\ cells' = cells \cup before
                /\ nl_todo' = nl_todo \cup {View(c.inst) : c \in before}
          /\ imported' = imported \cup {nl}
    /\ status' = AfterLogError(status)
    /\ UNCHANGED <<refs, is_operator, nl_done, skipped>>

\* One iteration for a netlist that is done already.
ExecuteSkip ==
    /\ status = "running"
    /\ \E nl \in nl_todo :
          /\ ~NotDone(nl)
          /\ skipped' = skipped \cup {nl}
          /\ nl_todo' = nl_todo \ {nl}
          /\ nl_done' = nl_done \cup {nl}
    /\ UNCHANGED <<refs, is_operator, design, cells, calls, imported, status>>

\* The loop ends: Libset::Reset() and check_error.
ExecuteFinish ==
    /\ status = "running"
    /\ nl_todo = {}
    /\ status' = "done"
    /\ UNCHANGED <<refs, is_operator, design, cells, nl_todo, nl_done, calls,
                   imported, skipped>>

NextImport ==
    \/ ExecuteImport /\ UNCHANGED <<netVars, extVars, svaVars, mergeVars, restVars>>
    \/ ExecuteReturn /\ UNCHANGED <<netVars, extVars, svaVars, mergeVars, restVars>>
    \/ ExecuteFatal /\ UNCHANGED <<netVars, extVars, svaVars, mergeVars, restVars>>
    \/ ExecuteSkip /\ UNCHANGED <<netVars, extVars, svaVars, mergeVars, restVars>>
    \/ ExecuteFinish /\ UNCHANGED <<netVars, extVars, svaVars, mergeVars, restVars>>

SpecImport == InitImport /\ [][NextImport]_vars

\* The run of "verific -import" with one top module, and with the errors
\* that import_netlist raises after it has created the module.
InitImportError ==
    /\ InitImport
    /\ nl_todo = {1}

NextImportError ==
    \/ NextImport
    \/ ExecuteImportError /\ UNCHANGED <<netVars, extVars, svaVars, mergeVars, restVars>>

SpecImportError == InitImportError /\ [][NextImportError]_vars

(***************************************************************************)
(* VerificImporter::import_netlist: ports, port buses, nets and net buses  *)
(* of one netlist, and net_map_at.                                         *)
(***************************************************************************)

Nets == 1..NumNets

\* What the source graph says of one net: whether it belongs to another
\* netlist, how many scalar ports have it as their net, and whether it is
\* an element of the port bus and of the net bus of the netlist.  The nets
\* of a bus belong to the netlist.
NetShapes ==
    {r \in [ext : BOOLEAN, ports : 0..2, portbus : BOOLEAN, netbus : BOOLEAN] :
        /\ r.ext => ~r.portbus /\ ~r.netbus
        /\ r.ports = 2 => ~r.portbus}

\* net->IsExternalTo(netlist)
IsExternalTo(net) == src_net[net].ext

\* The ascending sequence of the elements of a set of nets.
RECURSIVE Ascending(_)
Ascending(S) ==
    IF S = {} THEN <<>>
    ELSE LET x == CHOOSE y \in S : \A z \in S : y <= z
         IN <<x>> \o Ascending(S \ {x})

RECURSIVE Repeat(_, _)
Repeat(x, n) == IF n = 0 THEN <<>> ELSE <<x>> \o Repeat(x, n - 1)

RECURSIVE Flatten(_)
Flatten(qs) == IF qs = <<>> THEN <<>> ELSE Head(qs) \o Flatten(Tail(qs))

\* FOREACH_PORT_OF_NETLIST without the ports of a bus: the net of each.
PortList == Flatten([n \in Nets |-> Repeat(n, src_net[n].ports)])

\* The nets of the elements of the port bus, by index.
PortBusElems == Ascending({n \in Nets : src_net[n].portbus})

\* FOREACH_NET_OF_NETLIST: the nets the netlist owns.
NetList == Ascending({n \in Nets : ~src_net[n].ext})

\* The elements of the net bus, by index.
NetBusElems == Ascending({n \in Nets : src_net[n].netbus})

Wire(kind, id) == [kind |-> kind, id |-> id]
SigBit(wire, offset) == [wire |-> wire, offset |-> offset]
NoBit == SigBit(Wire("none", 0), 0)

\* net_map_at without its IsExternalTo test.
NetMapAtUnchecked(map, net) ==
    IF net \notin DOMAIN map
    THEN [err |-> "out_of_range", bit |-> NoBit]
    ELSE [err |-> "", bit |-> map[net]]

\* net_map_at(net) on the map as it is at the call: log_error for an
\* external net, else net_map.at(net), which throws for a missing key.
NetMapAt(map, net) ==
    IF IsExternalTo(net)
    THEN [err |-> "log_error", bit |-> NoBit]
    ELSE IF net \notin DOMAIN map
         THEN [err |-> "out_of_range", bit |-> NoBit]
         ELSE [err |-> "", bit |-> map[net]]

\* The importer's state threaded through a loop body.
Importer ==
    [map |-> net_map, conns |-> conns, looks |-> lookups, re |-> relooked, err |-> ""]

\* One call of net_map_at, recorded.
Looked(st, net) ==
    LET r == NetMapAt(st.map, net)
    IN [st EXCEPT !.looks = @ \cup {[net |-> net, err |-> r.err, bit |-> r.bit]},
                  !.re = IF \E l \in st.looks : l.net = net THEN @ \cup {net} ELSE @,
                  !.err = r.err]

BindAlways(map, net) == FALSE

\* net_map.count(net) != 0
Bound(map, net) == net \in DOMAIN map

\* if (net_map.count(net) == 0) net_map[net] = bit;
\* else if (port_input) module->connect(net_map_at(net), bit);
\* else module->connect(bit, net_map_at(net));
BindOrConnect(st, net, bit, port_input) ==
    IF st.err # "" THEN st
    ELSE IF ~Bound(st.map, net)
         THEN [st EXCEPT !.map = (net :> bit) @@ st.map]
         ELSE LET st2 == Looked(st, net)
                  r == NetMapAt(st.map, net)
              IN IF st2.err # "" THEN st2
                 ELSE [st2 EXCEPT !.conns = @ \cup
                          {IF port_input THEN [lhs |-> r.bit, rhs |-> bit]
                                         ELSE [lhs |-> bit, rhs |-> r.bit]}]

\* The bit offset of the k-th element visited by
\* for (i = LeftIndex();; i += IsUp() ? +1 : -1) in a bus of `size` bits:
\* i - min(LeftIndex(), RightIndex()).
BusOffset(k, size, up) == IF up THEN k - 1 ELSE size - k

\* The loop over the elements of a bus, from the k-th on.
RECURSIVE BusLoop(_, _, _, _, _, _)
BusLoop(st, elems, k, wire, up, port_input) ==
    IF k > Len(elems) THEN st
    ELSE BusLoop(BindOrConnect(st, elems[k], SigBit(wire, BusOffset(k, Len(elems), up)),
                               port_input),
                 elems, k + 1, wire, up, port_input)

\* The importer's state written back; an error ends the pass.
Committed(st, pc, i) ==
    /\ net_map' = st.map
    /\ conns' = st.conns
    /\ lookups' = st.looks
    /\ relooked' = st.re
    /\ nm_pc' = IF st.err # "" THEN "fatal" ELSE pc
    /\ nm_i' = i

InitNet ==
    /\ IdleImport
    /\ IdleExt
    /\ IdleSva
    /\ IdleMerge
    /\ IdleRest
    /\ src_net \in [Nets -> NetShapes]
    /\ net_map = <<>>
    /\ conns = {}
    /\ lookups = {}
    /\ relooked = {}
    /\ nm_i = 1
    /\ nm_pc = "ports"

\* FOREACH_PORT_OF_NETLIST: one scalar port that has a net.
ImportPort ==
    /\ nm_pc = "ports"
    /\ nm_i <= Len(PortList)
    /\ \E port_input \in BOOLEAN :
          Committed(BindOrConnect(Importer, PortList[nm_i],
                                  SigBit(Wire("port", nm_i), 0), port_input),
                    "ports", nm_i + 1)
    /\ UNCHANGED src_net

\* FOREACH_PORTBUS_OF_NETLIST: the port bus of the netlist, if it has one.
ImportPortBus ==
    /\ nm_pc = "ports"
    /\ nm_i > Len(PortList)
    /\ \E up \in BOOLEAN, port_input \in BOOLEAN :
          Committed(BusLoop(Importer, PortBusElems, 1, Wire("portbus", 1), up, port_input),
                    "nets", 1)
    /\ UNCHANGED src_net

\* FOREACH_NET_OF_NETLIST: one net that is no RAM net.
ImportNet ==
    /\ nm_pc = "nets"
    /\ nm_i <= Len(NetList)
    /\ LET net == NetList[nm_i]
       IN IF Bound(net_map, net) \/ src_net[net].netbus
          THEN net_map' = net_map
          ELSE net_map' = (net :> SigBit(Wire("net", net), 0)) @@ net_map
    /\ nm_i' = nm_i + 1
    /\ UNCHANGED <<src_net, conns, lookups, relooked, nm_pc>>

\* FOREACH_NETBUS_OF_NETLIST: the net bus of the netlist, if it has one.
ImportNetBus ==
    /\ nm_pc = "nets"
    /\ nm_i > Len(NetList)
    /\ \E up \in BOOLEAN :
          LET elems == NetBusElems
              found_new_net == \E k \in DOMAIN elems : ~Bound(net_map, elems[k])
          IN Committed(IF found_new_net
                       THEN BusLoop(Importer, elems, 1, Wire("netbus", 1), up, FALSE)
                       ELSE Importer,
                       "insts", 1)
    /\ UNCHANGED src_net

\* The anyconst/anyseq and init loops and FOREACH_INSTANCE_OF_NETLIST: one
\* call of net_map_at for a net that an attribute, an initial value or a pin
\* of an instance names.
ImportPin ==
    /\ nm_pc = "insts"
    /\ nm_i <= MaxPins
    /\ \E net \in Nets : Committed(Looked(Importer, net), "insts", nm_i + 1)
    /\ UNCHANGED src_net

NextNet ==
    \/ ImportPort /\ UNCHANGED <<importVars, extVars, svaVars, mergeVars, restVars>>
    \/ ImportPortBus /\ UNCHANGED <<importVars, extVars, svaVars, mergeVars, restVars>>
    \/ ImportNet /\ UNCHANGED <<importVars, extVars, svaVars, mergeVars, restVars>>
    \/ ImportNetBus /\ UNCHANGED <<importVars, extVars, svaVars, mergeVars, restVars>>
    \/ ImportPin /\ UNCHANGED <<importVars, extVars, svaVars, mergeVars, restVars>>

SpecNet == InitNet /\ [][NextNet]_vars

(***************************************************************************)
(* VerificExtNets: get_net_level_up and run.  Netlists are numbered so     *)
(* that an instance's view has a larger number than its owner; netlist 1   *)
(* is the one execute calls run for.  The first nets are one per netlist;  *)
(* a net made by get_net_level_up gets the next free number.               *)
(***************************************************************************)
ExtNetlists == 1..NumExtNetlists

\* the instances of the source graph, in the order of FOREACH_INSTANCE_OF_NETLIST
ExtInsts == DOMAIN en_insts

ExtTop == 1

NoWalk == <<>>

\* Netlist::NumOfRefs
NumOfRefs(nl) == Cardinality({i \in ExtInsts : en_insts[i].view = nl})

\* nl->GetReferences()->GetLast()
GetLastReference(nl) ==
    CHOOSE i \in ExtInsts :
        /\ en_insts[i].view = nl
        /\ \A j \in ExtInsts : en_insts[j].view = nl => j <= i

\* a variant of NotUnique that lets a netlist with several references through
NotUniqueOnlyUnused(nl) == NumOfRefs(nl) = 0

\* nl->NumOfRefs() != 1
NotUnique(nl) == NumOfRefs(nl) # 1

\* a variant of UpNetlist that stays in the netlist of the instance's view
UpNetlistView(up_inst) == en_insts[up_inst].view

\* up_inst->Owner()
UpNetlist(up_inst) == en_insts[up_inst].owner

\* net->IsExternalTo(nl)
NetIsExternalTo(net, nl) == net_owner[net] # nl

\* FOREACH_INSTANCE_OF_NETLIST(nl, mi, inst)
InstancesOfNetlist(nl) == {i \in ExtInsts : en_insts[i].owner = nl}

FirstInst(S) == CHOOSE i \in S : \A j \in S : i <= j

\* The netlists whose second loop runs during run(nl), in order: the first
\* loop of run(nl) calls run(inst->View()) for each instance of nl.
RECURSIVE RunOrder(_), RunOrderFrom(_, _)
RunOrder(nl) == RunOrderFrom(nl, 1) \o <<nl>>

RunOrderFrom(nl, i) ==
    IF i > Len(en_insts) THEN <<>>
    ELSE (IF en_insts[i].owner = nl THEN RunOrder(en_insts[i].view) ELSE <<>>)
         \o RunOrderFrom(nl, i + 1)

\* get_net_level_up(net): the net it returns and the source graph after it.
GetNetLevelUp(net) ==
    LET nl == net_owner[net]
        same == [ret |-> net, portname_cnt |-> portname_cnt,
                 net_level_up |-> net_level_up, net_owner |-> net_owner,
                 new_ports |-> new_ports, new_portrefs |-> new_portrefs]
    IN IF net \in DOMAIN net_level_up THEN [same EXCEPT !.ret = net_level_up[net]]
       ELSE IF NotUnique(nl) THEN same
       ELSE LET up_inst == GetLastReference(nl)
                up_nl == UpNetlist(up_inst)
                name == portname_cnt
                new_net == Len(net_owner) + 1
            IN [ret |-> new_net,
                portname_cnt |-> portname_cnt + 1,
                net_level_up |-> (net :> new_net) @@ net_level_up,
                net_owner |-> Append(net_owner, up_nl),
                new_ports |-> new_ports \cup {[nl |-> nl, name |-> name, net |-> net]},
                new_portrefs |-> new_portrefs \cup
                    {[inst |-> up_inst, port |-> name, net |-> new_net]}]

InitExt ==
    /\ IdleImport
    /\ IdleNet
    /\ IdleSva
    /\ IdleMerge
    /\ IdleRest
    /\ \E k \in 1..MaxExtInsts :
          en_insts \in [1..k -> {v \in [owner : ExtNetlists, view : ExtNetlists] :
                                   v.owner < v.view}]
    /\ \A i \in ExtInsts : \A j \in ExtInsts : i < j => en_insts[i].owner <= en_insts[j].owner
    /\ \A i \in ExtInsts :
          en_insts[i].owner # ExtTop => \E j \in ExtInsts : en_insts[j].view = en_insts[i].owner
    /\ net_owner = [n \in ExtNetlists |-> n]
    /\ portrefs \in [ExtInsts -> ExtNetlists]
    /\ new_ports = {}
    /\ new_portrefs = {}
    /\ portname_cnt = 0
    /\ net_level_up = <<>>
    /\ run_order = RunOrder(ExtTop)
    /\ en_todo = {}
    /\ walk = NoWalk
    /\ todo_connect = {}
    /\ fixed = {}
    /\ en_pc = "run"

\* run(nl) reaches its second loop.
RunBegin ==
    /\ en_pc = "run"
    /\ run_order # <<>>
    /\ en_todo' = InstancesOfNetlist(Head(run_order))
    /\ en_pc' = "loop"
    /\ UNCHANGED <<en_insts, net_owner, portrefs, new_ports, new_portrefs, portname_cnt,
                   net_level_up, run_order, walk, todo_connect, fixed>>

\* One instance of the second loop: its port references that
\* get_net_level_up added lead to nets of nl and are passed over, and so
\* is the first one unless its net is external to nl.
RunVisit ==
    /\ en_pc = "loop"
    /\ en_todo # {}
    /\ LET nl == Head(run_order)
           inst == FirstInst(en_todo)
           net == portrefs[inst]
       IN /\ en_todo' = en_todo \ {inst}
          /\ IF NetIsExternalTo(net, nl)
             THEN /\ walk' = [inst |-> inst, orig |-> net, net |-> net, steps |-> 0]
                  /\ en_pc' = "walk"
             ELSE UNCHANGED <<walk, en_pc>>
    /\ UNCHANGED <<en_insts, net_owner, portrefs, new_ports, new_portrefs, portname_cnt,
                   net_level_up, run_order, todo_connect, fixed>>

\* One turn of while (net->IsExternalTo(nl)).
RunLevelUp ==
    /\ en_pc = "walk"
    /\ NetIsExternalTo(walk.net, Head(run_order))
    /\ LET r == GetNetLevelUp(walk.net)
       IN /\ portname_cnt' = r.portname_cnt
          /\ net_level_up' = r.net_level_up
          /\ net_owner' = r.net_owner
          /\ new_ports' = r.new_ports
          /\ new_portrefs' = r.new_portrefs
          /\ IF r.ret = walk.net
             THEN /\ todo_connect' = todo_connect \cup
                        {[inst |-> walk.inst, net |-> walk.net, orig |-> walk.orig,
                          steps |-> walk.steps + 1, stopped |-> TRUE]}
                  /\ walk' = NoWalk
                  /\ en_pc' = "loop"
             ELSE /\ walk' = [walk EXCEPT !.net = r.ret, !.steps = @ + 1]
                  /\ UNCHANGED <<todo_connect, en_pc>>
    /\ UNCHANGED <<en_insts, portrefs, run_order, en_todo, fixed>>

\* The while loop ends because the net is no longer external.
RunWalkEnd ==
    /\ en_pc = "walk"
    /\ ~NetIsExternalTo(walk.net, Head(run_order))
    /\ todo_connect' = todo_connect \cup
          {[inst |-> walk.inst, net |-> walk.net, orig |-> walk.orig,
            steps |-> walk.steps, stopped |-> FALSE]}
    /\ walk' = NoWalk
    /\ en_pc' = "loop"
    /\ UNCHANGED <<en_insts, net_owner, portrefs, new_ports, new_portrefs, portname_cnt,
                   net_level_up, run_order, en_todo, fixed>>

\* for (auto it : todo_connect): Disconnect and Connect; run(nl) returns.
RunConnect ==
    /\ en_pc = "loop"
    /\ en_todo = {}
    /\ portrefs' = [i \in ExtInsts |->
                      IF \E t \in todo_connect : t.inst = i
                      THEN (CHOOSE t \in todo_connect : t.inst = i).net
                      ELSE portrefs[i]]
    /\ fixed' = fixed \cup
          {[nl |-> Head(run_order), inst |-> t.inst, net |-> t.net, orig |-> t.orig,
            steps |-> t.steps, stopped |-> t.stopped] : t \in todo_connect}
    /\ todo_connect' = {}
    /\ run_order' = Tail(run_order)
    /\ en_pc' = "run"
    /\ UNCHANGED <<en_insts, net_owner, new_ports, new_portrefs, portname_cnt,
                   net_level_up, en_todo, walk>>

NextExt ==
    \/ RunBegin /\ UNCHANGED <<importVars, netVars, svaVars, mergeVars, restVars>>
    \/ RunVisit /\ UNCHANGED <<importVars, netVars, svaVars, mergeVars, restVars>>
    \/ RunLevelUp /\ UNCHANGED <<importVars, netVars, svaVars, mergeVars, restVars>>
    \/ RunWalkEnd /\ UNCHANGED <<importVars, netVars, svaVars, mergeVars, restVars>>
    \/ RunConnect /\ UNCHANGED <<importVars, netVars, svaVars, mergeVars, restVars>>

SpecExtNets == InitExt /\ [][NextExt]_vars

(***************************************************************************)
(* VerificSvaImporter.  A node of the property below root is a tuple       *)
(* <<type, sva:low, sva:high, inputs>>; type "net" is a net that no SVA or *)
(* PSL primitive drives.  Nodes are numbered like a heap: the sequence     *)
(* node under the clock (and under disable iff or abort) is 1, the inputs  *)
(* of node p are 2p and 2p+1, and the net of a "net" node carries the      *)
(* node's number.  Net 0 is the net of the disable condition.              *)
(***************************************************************************)
Leaf == <<"net", 0, 0, <<>>>>

Ranges == {r \in (0..MaxDelay) \X (0..(MaxDelay + 1)) : r[2] = r[1] \/ r[2] = r[1] + 1}

\* SVA_NOT stands for the primitives parse_sequence has no case for.
UnaryOps ==
    {<<"SVA_CONSECUTIVE_REPEAT", r[1], r[2]>> : r \in Ranges}
        \cup {<<"ALWAYS", 0, 0>>, <<"SVA_NOT", 0, 0>>}

BinaryOps ==
    {<<"SVA_SEQ_CONCAT", r[1], r[2]>> : r \in Ranges}
        \cup {<<t, 0, 0>> : t \in {"SVA_OVERLAPPED_IMPLICATION",
                                   "SVA_NON_OVERLAPPED_IMPLICATION",
                                   "IMPL", "SUFFIX_IMPL"}}

Node(op, ins) == <<op[1], op[2], op[3], ins>>

\* The properties with exactly k primitives.
RECURSIVE AstsWith(_)
AstsWith(k) ==
    IF k = 0 THEN {Leaf}
    ELSE {Node(op, <<c>>) : op \in UnaryOps, c \in AstsWith(k - 1)}
         \cup UNION {{Node(op, <<a, b>>) : op \in BinaryOps, a \in AstsWith(i),
                                          b \in AstsWith(k - 1 - i)} : i \in 0..(k - 1)}

Asts(n) == UNION {AstsWith(k) : k \in 0..n}

\* The properties with one primitive over nets.
OneOperatorAsts ==
    {Node(op, <<Leaf>>) : op \in UnaryOps} \cup {Node(op, <<Leaf, Leaf>>) : op \in BinaryOps}

RECURSIVE HasType(_, _)
HasType(n, type) ==
    \/ n[1] = type
    \/ \E i \in 1..Len(n[4]) : HasType(n[4][i], type)

\* The node with number p, for a p that is the number of a node.
RECURSIVE NodeAt(_, _)
NodeAt(ast, p) ==
    IF p = 1 THEN ast ELSE NodeAt(ast, p \div 2)[4][(p % 2) + 1]

RECURSIVE NodeIds(_, _)
NodeIds(n, p) ==
    {p} \cup UNION {NodeIds(n[4][i], 2 * p + i - 1) : i \in 1..Len(n[4])}

\* RTLIL signals: State::S0, State::S1, the bit of a net, a wire made with NEW_ID.
S0 == <<"const", 0>>

S1 == <<"const", 1>>

NetSig(p) == <<"net", p>>

WireSig(w) == <<"wire", w>>

NoSig == <<"none", 0>>

DisableNet == 0

\* A cell: $and y = a & b; $mux y = s ? b : a; $dff with D a and Q y on
\* the edge pol; $assert, $assume, $cover with A a and EN b.
Cell(type, a, b, s, y, pol) ==
    [type |-> type, a |-> a, b |-> b, s |-> s, y |-> y, pol |-> pol]

\* sequence_t seq;
NewSeq == [length |-> 0, sig_a |-> S1, sig_en |-> S1]

\* SigBit disable_iff, as run sets it before parse_sequence.
DisableIff == IF sva_prop.disable = "none" THEN S0 ELSE NetSig(DisableNet)

LogError(st) == [st EXCEPT !.err = "log_error"]

\* a variant of LogWarning that also starts the sequence anew
LogWarningNewSeq(st) == [st EXCEPT !.warn = @ + 1, !.seq = NewSeq]

LogWarning(st) == [st EXCEPT !.warn = @ + 1]

Logged(st, ev) == [st EXCEPT !.log = Append(@, ev)]

\* sequence_cond(seq, cond)
SequenceCond(st, cond) ==
    IF st.err # "" THEN st
    ELSE LET y == WireSig(st.wires + 1)
         IN [st EXCEPT !.cells = Append(@, Cell("$and", st.seq.sig_a, cond, NoSig, y, FALSE)),
                       !.wires = @ + 1,
                       !.seq.sig_a = y]

\* seq.sig_en = module->And(NEW_ID, seq.sig_en, seq.sig_a)
SequenceEn(st) ==
    IF st.err # "" THEN st
    ELSE LET y == WireSig(st.wires + 1)
         IN [st EXCEPT !.cells = Append(@, Cell("$and", st.seq.sig_en, st.seq.sig_a, NoSig, y, FALSE)),
                       !.wires = @ + 1,
                       !.seq.sig_en = y]

\* a variant of DisableMux with the two data inputs the other way round
DisableMuxSwapped(sig_en, y) == Cell("$mux", S0, sig_en, DisableIff, y, FALSE)

\* module->Mux(NEW_ID, seq.sig_en, State::S0, disable_iff)
DisableMux(sig_en, y) == Cell("$mux", sig_en, S0, DisableIff, y, FALSE)

\* sequence_ff(seq); the log keeps the wire of sig_a_q and the sig_a and
\* sig_en the call came with
SequenceFf(st) ==
    IF st.err # "" THEN st
    ELSE LET muxed == DisableIff # S0
             w == IF muxed THEN st.wires + 1 ELSE st.wires
             sig_en == IF muxed THEN WireSig(w) ELSE st.seq.sig_en
             mux == IF muxed
                    THEN <<DisableMux(st.seq.sig_en, sig_en)>>
                    ELSE <<>>
             sig_a_q == WireSig(w + 1)
             sig_en_q == WireSig(w + 2)
         IN [st EXCEPT !.cells = @ \o mux \o
                           <<Cell("$dff", st.seq.sig_a, NoSig, NoSig, sig_a_q, sva_prop.posedge),
                             Cell("$dff", sig_en, NoSig, NoSig, sig_en_q, sva_prop.posedge)>>,
                       !.wires = w + 2,
                       !.seq = [length |-> @.length + 1, sig_a |-> sig_a_q, sig_en |-> sig_en_q],
                       !.log = Append(@, <<"ff", w + 1, st.seq.sig_a, st.seq.sig_en>>)]

\* int sva_low = atoi(inst->GetAttValue("sva:low"));
SvaLow(n) == n[2]

\* int sva_high = atoi(inst->GetAttValue("sva:low"));
SvaHigh(n) == n[2]

\* a variant of FfCount for a loop that starts at 1
FfCountFromOne(sva_low) == sva_low - 1

\* for (int i = 0; i < sva_low; i++): the number of turns
FfCount(sva_low) == sva_low

RECURSIVE FfTimes(_, _)
FfTimes(st, k) == IF k <= 0 THEN st ELSE FfTimes(SequenceFf(st), k - 1)

\* a variant of ImplFf that leaves the register pair out
ImplFfNone(st) == st

\* the sequence_ff(seq) call of a non-overlapped or suffix implication
ImplFf(st) == SequenceFf(st)

\* parse_sequence(seq, n) for the node n with number p
RECURSIVE ParseSequence(_, _, _), RepeatLoop(_, _, _, _)
ParseSequence(st0, n, p) ==
    IF st0.err # "" THEN st0
    ELSE LET st == Logged(st0, <<"parse", p>>)
             type == n[1]
             in == n[4]
             out ==
                CASE type = "net" -> SequenceCond(st, NetSig(p))
                  [] type = "SVA_OVERLAPPED_IMPLICATION" ->
                        ParseSequence(SequenceEn(ParseSequence(st, in[1], 2 * p)),
                                      in[2], 2 * p + 1)
                  [] type = "SVA_NON_OVERLAPPED_IMPLICATION" ->
                        ParseSequence(ImplFf(SequenceEn(ParseSequence(st, in[1], 2 * p))),
                                      in[2], 2 * p + 1)
                  [] type = "SVA_SEQ_CONCAT" ->
                        IF SvaLow(n) # SvaHigh(n) THEN LogError(st)
                        ELSE ParseSequence(FfTimes(ParseSequence(st, in[1], 2 * p),
                                                   FfCount(SvaLow(n))),
                                           in[2], 2 * p + 1)
                  [] type = "SVA_CONSECUTIVE_REPEAT" ->
                        IF SvaLow(n) # SvaHigh(n) THEN LogError(st)
                        ELSE RepeatLoop(ParseSequence(st, in[1], 2 * p), n, p, 1)
                  [] type = "ALWAYS" -> ParseSequence(st, in[1], 2 * p)
                  [] type = "IMPL" ->
                        ParseSequence(SequenceEn(ParseSequence(st, in[1], 2 * p)),
                                      in[2], 2 * p + 1)
                  [] type = "SUFFIX_IMPL" ->
                        ParseSequence(ImplFf(SequenceEn(ParseSequence(st, in[1], 2 * p))),
                                      in[2], 2 * p + 1)
                  [] OTHER ->
                        IF ~sva_prop.keep THEN LogError(st) ELSE LogWarning(st)
         IN IF out.err # "" THEN out ELSE Logged(out, <<"ret", p>>)

\* a variant of RepeatLoop that compiles the operand again without the
\* sequence_ff call
RECURSIVE RepeatLoopNoFf(_, _, _, _)
RepeatLoopNoFf(st, n, p, i) ==
    IF i >= SvaLow(n) THEN st
    ELSE RepeatLoopNoFf(ParseSequence(st, n[4][1], 2 * p), n, p, i + 1)

\* for (int i = 1; i < sva_low; i++) { sequence_ff(seq); parse_sequence(seq, inst->GetInput()); }
RepeatLoop(st, n, p, i) ==
    IF i >= SvaLow(n) THEN st
    ELSE RepeatLoop(ParseSequence(SequenceFf(st), n[4][1], 2 * p), n, p, i + 1)

\* a variant of AddConstraint that calls module->addAssert whatever the mode
AddAssert(st) ==
    IF st.err # "" THEN st
    ELSE [st EXCEPT !.cells = Append(@, Cell("$assert", st.seq.sig_a, st.seq.sig_en,
                                             NoSig, NoSig, FALSE))]

\* module->addAssert / addAssume / addCover(root_name, seq.sig_a, seq.sig_en)
AddConstraint(st) ==
    IF st.err # "" THEN st
    ELSE LET type == CASE sva_prop.kind = "assert" -> "$assert"
                       [] sva_prop.kind = "assume" -> "$assume"
                       [] sva_prop.kind = "cover" -> "$cover"
         IN [st EXCEPT !.cells = Append(@, Cell(type, st.seq.sig_a, st.seq.sig_en,
                                                  NoSig, NoSig, FALSE))]

\* VerificSvaImporter::run from the sequence_t declaration on
SvaCompile ==
    AddConstraint(SequenceFf(ParseSequence(
        [seq |-> NewSeq, cells |-> <<>>, log |-> <<>>, err |-> "", warn |-> 0, wires |-> 0],
        sva_prop.ast, 1)))

\* The wires with a $dff as driver.
RegWires(cs) == {cs[i].y[2] : i \in {j \in 1..Len(cs) : cs[j].type = "$dff"}}

\* The roots import_sva_assert, import_sva_assume and import_sva_cover can
\* be called for; mode_keep is read only for a primitive without a case.
Props(asts) ==
    {pr \in [ast : asts, kind : {"assert", "assume", "cover"},
             disable : {"none", "disable_iff", "abort"},
             posedge : BOOLEAN, keep : BOOLEAN] :
        pr.keep => HasType(pr.ast, "SVA_NOT")}

SvaStart ==
    /\ sva_cells = <<>>
    /\ sva_log = <<>>
    /\ sva_seq = NewSeq
    /\ sva_warn = 0
    /\ sva_pc = "root"
    /\ sim_regs = <<>>
    /\ sim_cycle = 0
    /\ sim_hist = <<>>

InitSva ==
    /\ IdleImport
    /\ IdleNet
    /\ IdleExt
    /\ IdleMerge
    /\ IdleRest
    /\ sva_prop \in Props(Asts(MaxSvaNodes))
    /\ SvaStart

\* VerificSvaImporter::run; the registers start at their init value 0.
SvaRun ==
    /\ sva_pc = "root"
    /\ LET st == SvaCompile
       IN /\ sva_cells' = st.cells
          /\ sva_log' = st.log
          /\ sva_seq' = st.seq
          /\ sva_warn' = st.warn
          /\ sva_pc' = IF st.err # "" THEN "fatal" ELSE "done"
          /\ sim_regs' = [w \in RegWires(st.cells) |-> 0]
    /\ UNCHANGED <<sva_prop, sim_cycle, sim_hist>>

NextSva ==
    \/ SvaRun /\ UNCHANGED <<importVars, netVars, extVars, mergeVars, restVars>>

SpecSva == InitSva /\ [][NextSva]_vars

(***************************************************************************)
(* parse_sequence as a function of the sequence state it is called with:   *)
(* one call, for the root of a property, in any sequence state.            *)
(***************************************************************************)
\* The sequence states parse_sequence can be called with; wires 1 and 2
\* are wires made before the call.
SeqStates ==
    [length : 0..MaxDelay, sig_a : {S1, WireSig(1)}, sig_en : {S1, WireSig(2)}]

\* The wires made before the call.
WiresBefore == 2

InitParse ==
    /\ IdleImport
    /\ IdleNet
    /\ IdleExt
    /\ IdleMerge
    /\ IdleRest
    /\ sva_prop \in Props(Asts(MaxSvaNodes))
    /\ sva_cells = <<>>
    /\ sva_log = <<>>
    /\ sva_seq \in SeqStates
    /\ sva_warn = 0
    /\ sva_pc = "parse"
    /\ sim_regs = <<>>
    /\ sim_cycle = 0
    /\ sim_hist = <<>>

\* parse_sequence(seq, sequence_net)
ParseCall ==
    /\ sva_pc = "parse"
    /\ LET st == ParseSequence([seq |-> sva_seq, cells |-> sva_cells, log |-> sva_log,
                                err |-> "", warn |-> sva_warn, wires |-> WiresBefore],
                               sva_prop.ast, 1)
       IN /\ sva_cells' = st.cells
          /\ sva_log' = st.log
          /\ sva_seq' = st.seq
          /\ sva_warn' = st.warn
          /\ sva_pc' = IF st.err # "" THEN "fatal" ELSE "returned"
    /\ UNCHANGED <<sva_prop, sim_regs, sim_cycle, sim_hist>>

NextParse ==
    \/ ParseCall /\ UNCHANGED <<importVars, netVars, extVars, mergeVars, restVars>>

SpecParse == InitParse /\ [][NextParse]_vars

\* parse_sequence for the properties with up to one primitive more than
\* MaxSvaNodes, called in the sequence state that run starts with.
InitParseDeep ==
    /\ IdleImport
    /\ IdleNet
    /\ IdleExt
    /\ IdleMerge
    /\ IdleRest
    /\ \E ast \in Asts(MaxSvaNodes + 1), keep \in BOOLEAN :
          /\ keep => HasType(ast, "SVA_NOT")
          /\ sva_prop = [ast |-> ast, kind |-> "assert", disable |-> "none",
                         posedge |-> TRUE, keep |-> keep]
    /\ sva_cells = <<>>
    /\ sva_log = <<>>
    /\ sva_seq = NewSeq
    /\ sva_warn = 0
    /\ sva_pc = "parse"
    /\ sim_regs = <<>>
    /\ sim_cycle = 0
    /\ sim_hist = <<>>

\* The call ends: it has returned or has ended in log_error.
ParseEnds == sva_pc = "parse" /\ sva_pc' \in {"returned", "fatal"}

\* parse_sequence is sequential code: a call that can end does end.
SpecParseDeep == InitParseDeep /\ [][NextParse]_vars /\ WF_sva_pc(ParseEnds)

(***************************************************************************)
(* The module VerificSvaImporter::run built, clocked: every active edge of *)
(* the clock loads each $dff with the value of its D input.                *)
(***************************************************************************)
\* The value of a signal, given the register outputs and the nets' values.
RECURSIVE Eval(_, _, _, _)
Eval(sig, cs, regs, inp) ==
    CASE sig[1] = "const" -> sig[2]
      [] sig[1] = "net" -> inp[sig[2]]
      [] sig[1] = "wire" ->
            LET c == cs[CHOOSE i \in 1..Len(cs) : cs[i].y = sig]
            IN CASE c.type = "$dff" -> regs[sig[2]]
                 [] c.type = "$and" ->
                       IF Eval(c.a, cs, regs, inp) = 1 /\ Eval(c.b, cs, regs, inp) = 1
                       THEN 1 ELSE 0
                 [] c.type = "$mux" ->
                       IF Eval(c.s, cs, regs, inp) = 1
                       THEN Eval(c.b, cs, regs, inp)
                       ELSE Eval(c.a, cs, regs, inp)

\* The $dff cell that drives wire w.
DffOf(cs, w) == cs[CHOOSE i \in 1..Len(cs) : cs[i].type = "$dff" /\ cs[i].y = WireSig(w)]

\* The nets the property reads.
SimInputs ==
    {p \in NodeIds(sva_prop.ast, 1) : NodeAt(sva_prop.ast, p)[1] = "net"}
        \cup (IF sva_prop.disable = "none" THEN {} ELSE {DisableNet})

InitSvaSim ==
    /\ IdleImport
    /\ IdleNet
    /\ IdleExt
    /\ IdleMerge
    /\ IdleRest
    /\ sva_prop \in Props(OneOperatorAsts)
    /\ SvaStart

\* One active clock edge.
SvaClock ==
    /\ sva_pc = "done"
    /\ sim_cycle < MaxCycles
    /\ \E inp \in [SimInputs -> {0, 1}] :
          /\ sim_regs' = [w \in DOMAIN sim_regs |->
                            Eval(DffOf(sva_cells, w).a, sva_cells, sim_regs, inp)]
          /\ sim_hist' = IF sim_hist = <<>> THEN <<inp>> ELSE <<inp, sim_hist[1]>>
    /\ sim_cycle' = sim_cycle + 1
    /\ UNCHANGED <<sva_prop, sva_cells, sva_log, sva_seq, sva_warn, sva_pc>>

NextSvaSim ==
    \/ SvaRun /\ UNCHANGED <<importVars, netVars, extVars, mergeVars, restVars>>
    \/ SvaClock /\ UNCHANGED <<importVars, netVars, extVars, mergeVars, restVars>>

SpecSvaSim == InitSvaSim /\ [][NextSvaSim]_vars

(***************************************************************************)
(* merge_past_ffs and merge_past_ffs_clock.  A SigBit is <<wire, offset>>; *)
(* the constants are the bits of ConstWire (chunk.wire == nullptr), with   *)
(* their value as offset.  The D inputs are bits of one vector, constants  *)
(* or the Q output of another past-value register.                         *)
(***************************************************************************)
ConstWire == 0

VecWire == 1

\* the wire of the Q output of the i-th register of past_ffs
QWire(i) == VecWire + i

\* the k-th wire made by module->addWire(NEW_ID, GetSize(sig_d))
NewWire(k) == VecWire + MaxFfs + k

\* The $dff cell of the i-th register of past_ffs.
PastCell(i) ==
    [wire |-> QWire(i), width |-> 1, clk |-> past_ffs[i].clk, pol |-> past_ffs[i].pol,
     d |-> <<past_ffs[i].d>>]

\* a variant of ClockKey that leaves the polarity out
ClockKeyNoPolarity(ff) == <<ff.clk, 0>>

\* make_pair(clock, int(clock_pol)), and the order of the keys of database
ClockKey(ff) == <<ff.clk, IF ff.pol THEN 1 ELSE 0>>

KeyLess(a, b) == a[1] < b[1] \/ (a[1] = b[1] /\ a[2] < b[2])

\* The D inputs the i-th register can have: a bit of the vector, a
\* constant, or the Q output of the register two places before it.
DChoices(i) ==
    {<<VecWire, o>> : o \in 0..(VecWidth - 1)}
        \cup {<<ConstWire, i % 2>>}
        \cup (IF i > 2 THEN {<<QWire(i - 2), 0>>} ELSE {})

\* The clock keys there are, in order.
Keys == {<<c, p>> : c \in 1..NumClocks, p \in {0, 1}}

\* The clock keys the register after the registers s can have, when the
\* registers are listed by key and the keys are used in order.
NextKeys(s) ==
    IF s = <<>> THEN {k \in Keys : \A y \in Keys : ~KeyLess(y, k)}
    ELSE LET last == ClockKey(s[Len(s)])
             above == {k \in Keys : KeyLess(last, k)}
         IN {last} \cup {k \in above : \A y \in above : ~KeyLess(y, k)}

\* The sets of k registers.
RECURSIVE PastFfSets(_)
PastFfSets(k) ==
    IF k = 0 THEN {<<>>}
    ELSE {Append(x[1], [clk |-> x[2][1], pol |-> x[2][2] = 1, d |-> x[3]]) :
             x \in {y \in PastFfSets(k - 1) \X Keys \X DChoices(k) : y[2] \in NextKeys(y[1])}}

\* The keys of database for the cells in S, in order.
RECURSIVE SortKeys(_)
SortKeys(K) ==
    IF K = {} THEN <<>>
    ELSE LET m == CHOOSE x \in K : \A y \in K : ~KeyLess(y, x)
         IN <<m>> \o SortKeys(K \ {m})

Database(S) == SortKeys({ClockKey(past_ffs[i]) : i \in S})

\* sigmap(bit)
SigMapOf(sm, bit) == IF bit \in DOMAIN sm THEN sm[bit] ELSE bit

BitLess(a, b) == a[1] < b[1] \/ (a[1] = b[1] /\ a[2] < b[2])

\* dbits.sort_and_unify(), for the set of the bits appended to dbits
RECURSIVE SortAndUnify(_)
SortAndUnify(B) ==
    IF B = {} THEN <<>>
    ELSE LET m == CHOOSE x \in B : \A y \in B : ~BitLess(y, x)
         IN <<m>> \o SortAndUnify(B \ {m})

\* dbits.chunks(): the bits packed into slices of one wire, or of constants
RECURSIVE Chunks(_)
Chunks(bits) ==
    IF bits = <<>> THEN <<>>
    ELSE LET front == Chunks(SubSeq(bits, 1, Len(bits) - 1))
             b == bits[Len(bits)]
             single == [wire |-> b[1], offset |-> b[2], width |-> 1]
         IN IF front = <<>> THEN <<single>>
            ELSE LET last == front[Len(front)]
                 IN IF /\ last.wire = b[1]
                       /\ (b[1] = ConstWire \/ b[2] = last.offset + last.width)
                    THEN [front EXCEPT ![Len(front)].width = @ + 1]
                    ELSE Append(front, single)

\* a variant of SkipChunk that passes over constants only
SkipChunkConstOnly(chunk) == chunk.wire = ConstWire

\* if (chunk.wire == nullptr || GetSize(sig_d) == 1) continue;
SkipChunk(chunk) == chunk.wire = ConstWire \/ chunk.width = 1

MergeChunk(chunk) == ~SkipChunk(chunk)

\* a variant of KeepRunning for a loop that never takes another turn
KeepRunningNever(merged) == FALSE

\* keep_running at the end of a turn of the while loop
KeepRunning(merged) == merged

\* The body of for (auto chunk : dbits.chunks()) for the chunks not passed
\* over, from chunk j on; dbits_db is that of the turn.
RECURSIVE MergeChunks(_, _, _, _)
MergeChunks(st, chunks, j, dbits_db) ==
    IF j > Len(chunks) THEN st
    ELSE LET chunk == chunks[j]
             key == Head(database)
             wire == NewWire(st.new + 1)
             sig_d == [i \in 1..chunk.width |-> <<chunk.wire, chunk.offset + i - 1>>]
             new_ff == [wire |-> wire, width |-> chunk.width, clk |-> key[1],
                        pol |-> key[2] = 1, d |-> sig_d]
             old == [i \in 1..chunk.width |-> dbits_db[sig_d[i]]]
             olds == UNION {old[i] : i \in 1..chunk.width}
             pairs == {<<<<QWire(x[1]), 0>>, <<wire, x[2] - 1>>>> :
                          x \in {y \in olds \X (1..chunk.width) : y[1] \in old[y[2]]}}
         IN MergeChunks(
               [ffs |-> (st.ffs \ {PastCell(c) : c \in olds}) \cup {new_ff},
                conns |-> st.conns \cup pairs,
                cands |-> st.cands \ olds,
                sigmap |-> [b \in DOMAIN st.sigmap \cup {pr[1] : pr \in pairs} |->
                              IF \E pr \in pairs : pr[1] = b
                              THEN (CHOOSE pr \in pairs : pr[1] = b)[2]
                              ELSE st.sigmap[b]],
                new |-> st.new + 1,
                log |-> st.log \cup {[run |-> mg_run, iter |-> mg_iter + 1, d |-> sig_d,
                                      wire |-> wire, old |-> olds]}],
               chunks, j + 1, dbits_db)

InitMerge ==
    /\ IdleImport
    /\ IdleNet
    /\ IdleExt
    /\ IdleSva
    /\ IdleRest
    /\ \E k \in 1..MaxFfs : past_ffs \in PastFfSets(k)
    /\ mod_ffs = {PastCell(i) : i \in DOMAIN past_ffs}
    /\ mod_conns = {}
    /\ database = Database(DOMAIN past_ffs)
    /\ candidates = {}
    /\ sigmap = <<>>
    /\ mg_iter = 0
    /\ mg_new = 0
    /\ mg_log = {}
    /\ mg_run = 1
    /\ mg_snap = [ffs |-> {}, conns |-> {}]
    /\ mg_pc = "database"

\* The cells of past_ffs that are still in the module.
Remaining == {i \in DOMAIN past_ffs : PastCell(i) \in mod_ffs}

\* for (auto it : database) merge_past_ffs_clock(it.second, ...): the call
\* for the next key, up to the while loop.
MergeNextClock ==
    /\ mg_pc \in {"database", "exit"}
    /\ database # <<>>
    /\ candidates' = {i \in Remaining : ClockKey(past_ffs[i]) = Head(database)}
    /\ sigmap' = <<>>
    /\ mg_iter' = 0
    /\ mg_pc' = "loop"
    /\ UNCHANGED <<past_ffs, mod_ffs, mod_conns, database, mg_new, mg_log, mg_run, mg_snap>>

\* One turn of while (keep_running).
MergeLoop ==
    /\ mg_pc = "loop"
    /\ LET dbits_db ==
              [b \in {SigMapOf(sigmap, past_ffs[c].d) : c \in candidates} |->
                 {c \in candidates : SigMapOf(sigmap, past_ffs[c].d) = b}]
           chunks == SelectSeq(Chunks(SortAndUnify(DOMAIN dbits_db)), MergeChunk)
           st == MergeChunks([ffs |-> mod_ffs, conns |-> mod_conns, cands |-> candidates,
                              sigmap |-> sigmap, new |-> mg_new, log |-> mg_log],
                             chunks, 1, dbits_db)
       IN /\ mod_ffs' = st.ffs
          /\ mod_conns' = st.conns
          /\ candidates' = st.cands
          /\ sigmap' = st.sigmap
          /\ mg_new' = st.new
          /\ mg_log' = st.log
          /\ IF KeepRunning(chunks # <<>>)
             THEN UNCHANGED <<mg_pc, database>>
             ELSE /\ mg_pc' = "exit"
                  /\ database' = Tail(database)
    /\ mg_iter' = mg_iter + 1
    /\ UNCHANGED <<past_ffs, mg_run, mg_snap>>

\* merge_past_ffs returns.
MergeReturn ==
    /\ mg_pc \in {"database", "exit"}
    /\ database = <<>>
    /\ mg_pc' = "done"
    /\ UNCHANGED <<past_ffs, mod_ffs, mod_conns, database, candidates, sigmap, mg_iter,
                   mg_new, mg_log, mg_run, mg_snap>>

\* A second call of merge_past_ffs, for the cells of past_ffs that are left.
MergeAgain ==
    /\ mg_pc = "done"
    /\ mg_run = 1
    /\ mg_run' = 2
    /\ mg_snap' = [ffs |-> mod_ffs, conns |-> mod_conns]
    /\ database' = Database(Remaining)
    /\ candidates' = {}
    /\ sigmap' = <<>>
    /\ mg_iter' = 0
    /\ mg_pc' = "database"
    /\ UNCHANGED <<past_ffs, mod_ffs, mod_conns, mg_new, mg_log>>

NextMerge ==
    \/ MergeNextClock /\ UNCHANGED <<importVars, netVars, extVars, svaVars, restVars>>
    \/ MergeLoop /\ UNCHANGED <<importVars, netVars, extVars, svaVars, restVars>>
    \/ MergeReturn /\ UNCHANGED <<importVars, netVars, extVars, svaVars, restVars>>
    \/ MergeAgain /\ UNCHANGED <<importVars, netVars, extVars, svaVars, restVars>>

SpecMerge == InitMerge /\ [][NextMerge]_vars

(***************************************************************************)
(* import_netlist_instance_gates and import_netlist_instance_cells: the    *)
(* cells each of them adds for one primitive instance.                     *)
(***************************************************************************)

\* The primitives both lowerings know, and PRIM_BUF that only
\* import_netlist_instance_gates knows.
GatePrims ==
    {"PRIM_AND", "PRIM_NAND", "PRIM_OR", "PRIM_NOR", "PRIM_XOR", "PRIM_XNOR",
     "PRIM_BUF", "PRIM_INV", "PRIM_MUX", "PRIM_TRI"}

\* The instances: the type, whether GetOutput() and GetCout() give a net
\* (PRIM_FADD), and whether GetSet() and GetReset() are the ground net
\* (PRIM_DFFRS).
LowerInsts ==
    {[type |-> t, out |-> TRUE, cout |-> FALSE, set_gnd |-> FALSE, reset_gnd |-> FALSE] :
        t \in GatePrims}
    \cup {[type |-> "PRIM_FADD", out |-> o, cout |-> c, set_gnd |-> FALSE, reset_gnd |-> FALSE] :
            o \in BOOLEAN, c \in BOOLEAN}
    \cup {[type |-> t, out |-> TRUE, cout |-> FALSE, set_gnd |-> s, reset_gnd |-> r] :
            t \in {"PRIM_DFFRS", "PRIM_DLATCHRS"}, s \in BOOLEAN, r \in BOOLEAN}

\* net_map_at(inst->GetX()): the signal of the net on pin x.
Pin(x) == <<"net", x>>

\* module->addWire(NEW_ID): the k-th wire made for the instance.
Tmp(k) == <<"new", k, 0>>

\* module->addWire(NEW_ID, 2): the two bits of the k-th wire.
Tmp2(k) == <<<<"new", k, 0>>, <<"new", k, 1>>>>

Sz == <<"const", "z">>

\* A cell: the function of RTLIL::Module that added it, its name
\* (inst_name or NEW_ID) and the signals on its ports.
Added(fn, name, ports) == [fn |-> fn, name |-> name, ports |-> ports]

BinGate(fn, name, a, b, y) == Added(fn, name, [A |-> <<a>>, B |-> <<b>>, Y |-> <<y>>])

UnGate(fn, name, a, y) == Added(fn, name, [A |-> <<a>>, Y |-> <<y>>])

MuxGate(fn, name, a, b, s, y) ==
    Added(fn, name, [A |-> <<a>>, B |-> <<b>>, S |-> <<s>>, Y |-> <<y>>])

Handled(cs) == [handled |-> TRUE, cells |-> cs]

NotHandled == [handled |-> FALSE, cells |-> <<>>]

\* PRIM_FADD of import_netlist_instance_gates.
FaddGates(inst) ==
    LET a == Pin("Input1")
        b == Pin("Input2")
        c == Pin("Cin")
        nx == IF inst.cout THEN 0 ELSE 1
        x == IF inst.cout THEN Pin("Cout") ELSE Tmp(1)
        ny == IF inst.out THEN nx ELSE nx + 1
        y == IF inst.out THEN Pin("Output") ELSE Tmp(ny)
        tmp1 == Tmp(ny + 1)
        tmp2 == Tmp(ny + 2)
        tmp3 == Tmp(ny + 3)
    IN <<BinGate("addXorGate", "NEW_ID", a, b, tmp1),
         BinGate("addXorGate", "inst_name", tmp1, c, y),
         BinGate("addAndGate", "NEW_ID", tmp1, c, tmp2),
         BinGate("addAndGate", "NEW_ID", a, b, tmp3),
         BinGate("addOrGate", "NEW_ID", tmp2, tmp3, x)>>

\* The sum of the second adder with the carry net swapped in front of it.
AdderOutCarryFirst(inst, y) == IF inst.cout THEN <<Pin("Cout"), y>> ELSE <<y>>

\* SigSpec y of PRIM_FADD in import_netlist_instance_cells after
\* y.append(net_map_at(inst->GetCout())).
AdderOut(inst, y) == IF inst.cout THEN <<y, Pin("Cout")>> ELSE <<y>>

\* PRIM_FADD of import_netlist_instance_cells.
FaddCells(inst) ==
    LET a_plus_b == Tmp2(1)
        y == IF inst.out THEN Pin("Output") ELSE Tmp(2)
    IN <<Added("addAdd", "NEW_ID",
               [A |-> <<Pin("Input1")>>, B |-> <<Pin("Input2")>>, Y |-> a_plus_b]),
         Added("addAdd", "inst_name",
               [A |-> a_plus_b, B |-> <<Pin("Cin")>>, Y |-> AdderOut(inst, y)])>>

\* PRIM_DFFRS lowered to a plain register whatever the set and reset nets are.
DffrsGatesPlain(inst) ==
    <<Added("addDffGate", "inst_name",
            [CLK |-> <<Pin("Clock")>>, D |-> <<Pin("Input")>>, Q |-> <<Pin("Output")>>])>>

\* PRIM_DFFRS of import_netlist_instance_gates; the last argument of
\* addAdffGate is the bool arst_value.
DffrsGates(inst) ==
    IF inst.set_gnd /\ inst.reset_gnd
    THEN <<Added("addDffGate", "inst_name",
                 [CLK |-> <<Pin("Clock")>>, D |-> <<Pin("Input")>>, Q |-> <<Pin("Output")>>])>>
    ELSE IF inst.set_gnd
    THEN <<Added("addAdffGate", "inst_name",
                 [CLK |-> <<Pin("Clock")>>, ARST |-> <<Pin("Reset")>>, D |-> <<Pin("Input")>>,
                  Q |-> <<Pin("Output")>>, arst_value |-> FALSE])>>
    ELSE IF inst.reset_gnd
    THEN <<Added("addAdffGate", "inst_name",
                 [CLK |-> <<Pin("Clock")>>, ARST |-> <<Pin("Set")>>, D |-> <<Pin("Input")>>,
                  Q |-> <<Pin("Output")>>, arst_value |-> TRUE])>>
    ELSE <<Added("addDffsrGate", "inst_name",
                 [CLK |-> <<Pin("Clock")>>, SET |-> <<Pin("Set")>>, CLR |-> <<Pin("Reset")>>,
                  D |-> <<Pin("Input")>>, Q |-> <<Pin("Output")>>])>>

\* PRIM_DFFRS of import_netlist_instance_cells; the last argument of
\* addAdff is the constant arst_value.
DffrsCells(inst) ==
    IF inst.set_gnd /\ inst.reset_gnd
    THEN <<Added("addDff", "inst_name",
                 [CLK |-> <<Pin("Clock")>>, D |-> <<Pin("Input")>>, Q |-> <<Pin("Output")>>])>>
    ELSE IF inst.set_gnd
    THEN <<Added("addAdff", "inst_name",
                 [CLK |-> <<Pin("Clock")>>, ARST |-> <<Pin("Reset")>>, D |-> <<Pin("Input")>>,
                  Q |-> <<Pin("Output")>>, arst_value |-> <<"const", 0>>])>>
    ELSE IF inst.reset_gnd
    THEN <<Added("addAdff", "inst_name",
                 [CLK |-> <<Pin("Clock")>>, ARST |-> <<Pin("Set")>>, D |-> <<Pin("Input")>>,
                  Q |-> <<Pin("Output")>>, arst_value |-> <<"const", 1>>])>>
    ELSE <<Added("addDffsr", "inst_name",
                 [CLK |-> <<Pin("Clock")>>, SET |-> <<Pin("Set")>>, CLR |-> <<Pin("Reset")>>,
                  D |-> <<Pin("Input")>>, Q |-> <<Pin("Output")>>])>>

\* PRIM_DLATCHRS of import_netlist_instance_cells.
DlatchrsCells(inst) ==
    IF inst.set_gnd /\ inst.reset_gnd
    THEN <<Added("addDlatch", "inst_name",
                 [EN |-> <<Pin("Control")>>, D |-> <<Pin("Input")>>, Q |-> <<Pin("Output")>>])>>
    ELSE <<Added("addDlatchsr", "inst_name",
                 [EN |-> <<Pin("Control")>>, SET |-> <<Pin("Set")>>, CLR |-> <<Pin("Reset")>>,
                  D |-> <<Pin("Input")>>, Q |-> <<Pin("Output")>>])>>

\* bool import_netlist_instance_gates(Instance *inst, RTLIL::IdString inst_name)
ImportNetlistInstanceGates(inst) ==
    LET i1 == Pin("Input1")
        i2 == Pin("Input2")
        out == Pin("Output")
    IN CASE inst.type = "PRIM_AND" -> Handled(<<BinGate("addAndGate", "inst_name", i1, i2, out)>>)
         [] inst.type = "PRIM_NAND" ->
               Handled(<<BinGate("addAndGate", "NEW_ID", i1, i2, Tmp(1)),
                         UnGate("addNotGate", "inst_name", Tmp(1), out)>>)
         [] inst.type = "PRIM_OR" -> Handled(<<BinGate("addOrGate", "inst_name", i1, i2, out)>>)
         [] inst.type = "PRIM_NOR" ->
               Handled(<<BinGate("addOrGate", "NEW_ID", i1, i2, Tmp(1)),
                         UnGate("addNotGate", "inst_name", Tmp(1), out)>>)
         [] inst.type = "PRIM_XOR" -> Handled(<<BinGate("addXorGate", "inst_name", i1, i2, out)>>)
         [] inst.type = "PRIM_XNOR" -> Handled(<<BinGate("addXnorGate", "inst_name", i1, i2, out)>>)
         [] inst.type = "PRIM_BUF" -> Handled(<<UnGate("addBufGate", "inst_name", Pin("Input"), out)>>)
         [] inst.type = "PRIM_INV" -> Handled(<<UnGate("addNotGate", "inst_name", Pin("Input"), out)>>)
         [] inst.type = "PRIM_MUX" ->
               Handled(<<MuxGate("addMuxGate", "inst_name", i1, i2, Pin("Control"), out)>>)
         [] inst.type = "PRIM_TRI" ->
               Handled(<<MuxGate("addMuxGate", "inst_name", Sz, Pin("Input"), Pin("Control"), out)>>)
         [] inst.type = "PRIM_FADD" -> Handled(FaddGates(inst))
         [] inst.type = "PRIM_DFFRS" -> Handled(DffrsGates(inst))
         [] OTHER -> NotHandled

\* bool import_netlist_instance_cells(Instance *inst, RTLIL::IdString inst_name),
\* as far as the primitives above go.
ImportNetlistInstanceCells(inst) ==
    LET i1 == Pin("Input1")
        i2 == Pin("Input2")
        out == Pin("Output")
    IN CASE inst.type = "PRIM_AND" -> Handled(<<BinGate("addAnd", "inst_name", i1, i2, out)>>)
         [] inst.type = "PRIM_NAND" ->
               Handled(<<BinGate("addAnd", "NEW_ID", i1, i2, Tmp(1)),
                         UnGate("addNot", "inst_name", Tmp(1), out)>>)
         [] inst.type = "PRIM_OR" -> Handled(<<BinGate("addOr", "inst_name", i1, i2, out)>>)
         [] inst.type = "PRIM_NOR" ->
               Handled(<<BinGate("addOr", "NEW_ID", i1, i2, Tmp(1)),
                         UnGate("addNot", "inst_name", Tmp(1), out)>>)
         [] inst.type = "PRIM_XOR" -> Handled(<<BinGate("addXor", "inst_name", i1, i2, out)>>)
         [] inst.type = "PRIM_XNOR" -> Handled(<<BinGate("addXnor", "inst_name", i1, i2, out)>>)
         [] inst.type = "PRIM_INV" -> Handled(<<UnGate("addNot", "inst_name", Pin("Input"), out)>>)
         [] inst.type = "PRIM_MUX" ->
               Handled(<<MuxGate("addMux", "inst_name", i1, i2, Pin("Control"), out)>>)
         [] inst.type = "PRIM_TRI" ->
               Handled(<<MuxGate("addMux", "inst_name", Sz, Pin("Input"), Pin("Control"), out)>>)
         [] inst.type = "PRIM_FADD" -> Handled(FaddCells(inst))
         [] inst.type = "PRIM_DFFRS" -> Handled(DffrsCells(inst))
         [] inst.type = "PRIM_DLATCHRS" -> Handled(DlatchrsCells(inst))
         [] OTHER -> NotHandled

\* The input pins of an instance that carry a value.
InPins(inst) ==
    CASE inst.type \in {"PRIM_BUF", "PRIM_INV"} -> {"Input"}
      [] inst.type = "PRIM_MUX" -> {"Input1", "Input2", "Control"}
      [] inst.type = "PRIM_TRI" -> {"Input", "Control"}
      [] inst.type = "PRIM_FADD" -> {"Input1", "Input2", "Cin"}
      [] inst.type \in {"PRIM_DFFRS", "PRIM_DLATCHRS"} -> {}
      [] OTHER -> {"Input1", "Input2"}

\* ---- the values of the cells ------------------------------------------

\* The value of one signal bit under env, the values of the wires so far.
BitVal(env, sig) == IF sig[1] = "const" THEN sig[2] ELSE env[sig]

\* The number a signal stands for, bit 0 first.
RECURSIVE SigVal(_, _)
SigVal(env, sig) ==
    IF sig = <<>> THEN 0 ELSE BitVal(env, Head(sig)) + 2 * SigVal(env, Tail(sig))

RECURSIVE Pow2(_)
Pow2(n) == IF n = 0 THEN 1 ELSE 2 * Pow2(n - 1)

\* The bits of number v at width w, bit 0 first.
Bits(v, w) == [i \in 1..w |-> (v \div Pow2(i - 1)) % 2]

\* The value on port Y of a combinational cell.
CellOut(env, c) ==
    LET a == SigVal(env, c.ports.A)
        b == SigVal(env, c.ports.B)
        w == Len(c.ports.Y)
    IN CASE c.fn \in {"addAndGate", "addAnd"} -> Bits(a * b, w)
         [] c.fn \in {"addOrGate", "addOr"} -> Bits(IF a + b > 0 THEN 1 ELSE 0, w)
         [] c.fn \in {"addXorGate", "addXor"} -> Bits((a + b) % 2, w)
         [] c.fn \in {"addXnorGate", "addXnor"} -> Bits(1 - ((a + b) % 2), w)
         [] c.fn \in {"addNotGate", "addNot"} -> Bits(1 - a, w)
         [] c.fn = "addBufGate" -> Bits(a, w)
         [] c.fn \in {"addMuxGate", "addMux"} ->
               IF BitVal(env, c.ports.S[1]) = 1 THEN <<BitVal(env, c.ports.B[1])>>
               ELSE <<BitVal(env, c.ports.A[1])>>
         [] c.fn = "addAdd" -> Bits((a + b) % Pow2(w), w)

Combinational(c) == "Y" \in DOMAIN c.ports

\* The values of all wires of a module, its cells taken in the order in
\* which they were added (every cell is added after the cells it reads).
RECURSIVE EvalCells(_, _)
EvalCells(env, cs) ==
    IF cs = <<>> THEN env
    ELSE LET c == Head(cs)
         IN IF ~Combinational(c) THEN EvalCells(env, Tail(cs))
            ELSE LET out == CellOut(env, c)
                     y == c.ports.Y
                 IN EvalCells([s \in DOMAIN env \cup {y[i] : i \in 1..Len(y)} |->
                                  IF \E i \in 1..Len(y) : y[i] = s
                                  THEN out[CHOOSE i \in 1..Len(y) : y[i] = s]
                                  ELSE env[s]],
                              Tail(cs))

\* The values on the input nets as the wires see them.
InputEnv == [s \in {Pin(p) : p \in DOMAIN lw_in} |-> lw_in[s[2]]]

InitLower ==
    /\ IdleImport
    /\ IdleNet
    /\ IdleExt
    /\ IdleSva
    /\ IdleMerge
    /\ IdleEdge
    /\ IdleLoop
    /\ IdleCmd
    /\ lw_inst \in LowerInsts
    /\ lw_in \in [InPins(lw_inst) -> {0, 1}]
    /\ lw_gates = <<>>
    /\ lw_cells = <<>>
    /\ lw_pc = "inst"

\* A run with -gates reaches the instance.
LowerGates ==
    /\ lw_pc = "inst"
    /\ lw_gates = <<>>
    /\ lw_gates' = ImportNetlistInstanceGates(lw_inst)
    /\ UNCHANGED <<lw_inst, lw_in, lw_cells, lw_pc>>

\* A run without -gates reaches the instance.
LowerCells ==
    /\ lw_pc = "inst"
    /\ lw_cells = <<>>
    /\ lw_cells' = ImportNetlistInstanceCells(lw_inst)
    /\ UNCHANGED <<lw_inst, lw_in, lw_gates, lw_pc>>

NextLower ==
    \/ LowerGates /\ UNCHANGED <<importVars, netVars, extVars, svaVars, mergeVars, edgeVars, loopVars, cmdVars>>
    \/ LowerCells /\ UNCHANGED <<importVars, netVars, extVars, svaVars, mergeVars, edgeVars, loopVars, cmdVars>>

SpecLower == InitLower /\ [][NextLower]_vars

(***************************************************************************)
(* VerificClockEdge and the verific_follow_* functions.                    *)
(***************************************************************************)

EdgeNets == 1..NumEdgeNets

\* nullptr as a Net*.
NullNet == 0

\* No instance: what Driver() gives for a net without a driver.
NoDriver == [type |-> "none", in |-> NullNet, size |-> 1, multi |-> FALSE]

\* What the source graph can say of the drivers of net n: Driver(), with
\* its type, its input net and its InputSize(), and IsMultipleDriven().
\* The input net of a driver has a smaller number than the net it drives.
DriverChoices(n) ==
    {NoDriver}
    \cup {[type |-> "other", in |-> NullNet, size |-> 1, multi |-> md] : md \in BOOLEAN}
    \cup {[type |-> "PRIM_INV", in |-> i, size |-> 1, multi |-> md] :
             i \in 1..(n - 1), md \in BOOLEAN}
    \cup {[type |-> "OPER_PSLPREV", in |-> i, size |-> sz, multi |-> md] :
             i \in 1..(n - 1), sz \in 1..2, md \in BOOLEAN}

\* The nodes VerificClockEdge can be given.
EdgeInsts ==
    {[type |-> "PRIM_SVA_POSEDGE", in1 |-> n, in2 |-> NullNet] : n \in EdgeNets}
    \cup {[type |-> "PRIM_AND", in1 |-> a, in2 |-> b] : a \in EdgeNets, b \in EdgeNets}
    \cup {[type |-> "PRIM_OR", in1 |-> a, in2 |-> a] : a \in {NumEdgeNets}}

IsMultipleDriven(w) == ce_drivers[w].multi

Driver(w) == ce_drivers[w]

\* Net *verific_follow_inv(Net *w)
VerificFollowInv(w) ==
    IF w = NullNet \/ IsMultipleDriven(w) THEN NullNet
    ELSE LET i == Driver(w)
         IN IF i.type = "none" \/ i.type # "PRIM_INV" THEN NullNet ELSE i.in

\* Net *verific_follow_pslprev(Net *w)
VerificFollowPslprev(w) ==
    IF w = NullNet \/ IsMultipleDriven(w) THEN NullNet
    ELSE LET i == Driver(w)
         IN IF i.type = "none" \/ i.type # "OPER_PSLPREV" \/ i.size # 1 THEN NullNet
            ELSE i.in

\* Net *verific_follow_inv_pslprev(Net *w)
VerificFollowInvPslprev(w) == VerificFollowPslprev(VerificFollowInv(w))

EdgeResult(outcome, net, sig, pos) ==
    [outcome |-> outcome, clock_net |-> net, clock_sig |-> sig, posedge |-> pos]

\* The signals a SigBit that was never assigned can hold.
AnySig == {NoSig} \cup {NetSig(n) : n \in EdgeNets}

\* clock_sig = importer->net_map_at(clock_net) and the return after it:
\* log_error for the external net, and for nullptr whatever a call through
\* a null pointer does.
EdgeReturn(net, pos) ==
    IF net = NullNet
    THEN {EdgeResult("crash", NullNet, NoSig, pos)}
            \cup {EdgeResult("return", NullNet, s, pos) : s \in AnySig}
    ELSE IF ce_ext /\ net = 1 THEN {EdgeResult("fatal", net, NoSig, pos)}
    ELSE {EdgeResult("return", net, NetSig(net), pos)}

\* The // SVA posedge/negedge branch with the driver test left out.
SvaPosedgeNoInv(inst) == EdgeReturn(inst.in1, TRUE)

\* The // SVA posedge/negedge branch.
SvaPosedge(inst) ==
    LET clock_net == inst.in1
        driver == Driver(clock_net)
    IN IF ~IsMultipleDriven(clock_net) /\ driver.type # "none" /\ driver.type = "PRIM_INV"
       THEN EdgeReturn(driver.in, FALSE)
       ELSE EdgeReturn(clock_net, TRUE)

\* The // VHDL-flavored PSL clock branch.
PslClock(inst) ==
    LET w1 == inst.in1
        w2 == inst.in2
    IN IF VerificFollowInvPslprev(w1) = w2 THEN EdgeReturn(VerificFollowInvPslprev(w1), TRUE)
       ELSE IF VerificFollowInvPslprev(w2) = w1 THEN EdgeReturn(VerificFollowInvPslprev(w2), TRUE)
       ELSE IF VerificFollowPslprev(w1) = VerificFollowInv(w2)
            THEN EdgeReturn(VerificFollowPslprev(w1), FALSE)
       ELSE IF VerificFollowPslprev(w2) = VerificFollowInv(w1)
            THEN EdgeReturn(VerificFollowPslprev(w2), FALSE)
       ELSE {EdgeResult("abort", VerificFollowPslprev(w2), NoSig, FALSE)}

\* VerificClockEdge::VerificClockEdge: the results it can have.  For a
\* node of another type it returns without having assigned its fields.
VerificClockEdge(inst) ==
    IF inst.type = "PRIM_SVA_POSEDGE" THEN SvaPosedge(inst)
    ELSE IF inst.type = "PRIM_AND" THEN PslClock(inst)
    ELSE {EdgeResult("return", n, s, b) :
             n \in EdgeNets \cup {NullNet}, s \in AnySig, b \in BOOLEAN}

InitEdge ==
    /\ IdleImport
    /\ IdleNet
    /\ IdleExt
    /\ IdleSva
    /\ IdleMerge
    /\ IdleLower
    /\ IdleLoop
    /\ IdleCmd
    /\ ce_drivers \in {f \in [EdgeNets -> UNION {DriverChoices(n) : n \in EdgeNets}] :
                         \A n \in EdgeNets : f[n] \in DriverChoices(n)}
    /\ ce_ext \in BOOLEAN
    /\ ce_inst \in EdgeInsts
    /\ ce_res = <<>>
    /\ ce_pc = "node"

\* VerificClockEdge clock_edge(importer, inst);
ClockEdge ==
    /\ ce_pc = "node"
    /\ ce_res' \in VerificClockEdge(ce_inst)
    /\ ce_pc' = "done"
    /\ UNCHANGED <<ce_drivers, ce_ext, ce_inst>>

NextEdge ==
    \/ ClockEdge /\ UNCHANGED <<importVars, netVars, extVars, svaVars, mergeVars, lowerVars, loopVars, cmdVars>>

SpecEdge == InitEdge /\ [][NextEdge]_vars

(***************************************************************************)
(* VerificImporter::import_netlist: the RAM net, the loop over the         *)
(* instances of the netlist, and the calls after the loop.                 *)
(***************************************************************************)

Options == {"-gates", "-k", "-nosva", "-nosvapp"}

\* The option loop of -import with -nosvapp setting mode_nosvapp alone.
ParseArgsApart(args) ==
    [mode_gates |-> "-gates" \in args,
     mode_keep |-> "-k" \in args,
     mode_nosva |-> "-nosva" \in args,
     mode_nosvapp |-> "-nosvapp" \in args]

\* The option loop of -import in VerificPass::execute, for the options
\* that the importer is constructed with.
ParseArgs(args) ==
    [mode_gates |-> "-gates" \in args,
     mode_keep |-> "-k" \in args,
     mode_nosva |-> "-nosva" \in args \/ "-nosvapp" \in args,
     mode_nosvapp |-> "-nosvapp" \in args]

\* An instance of the netlist: its type, its data width (memory ports),
\* InputSize() and whether GetClock() is a constant (OPER_PSLPREV).
LoopInst(t, w, sz, cc) ==
    [type |-> t, out |-> TRUE, cout |-> FALSE, set_gnd |-> TRUE, reset_gnd |-> TRUE,
     width |-> w, size |-> sz, clock_const |-> cc]

ImmediateTypes ==
    {"PRIM_SVA_IMMEDIATE_ASSERT", "PRIM_SVA_IMMEDIATE_ASSUME", "PRIM_SVA_IMMEDIATE_COVER"}

ClockedTypes == {"PRIM_SVA_ASSERT", "PRIM_SVA_ASSUME", "PRIM_SVA_COVER"}

MemPortTypes == {"OPER_READ_PORT", "OPER_WRITE_PORT", "OPER_CLOCKED_WRITE_PORT"}

\* The types of the model that are in verific_sva_prims or verific_psl_prims.
SvaPslPrims ==
    ImmediateTypes \cup ClockedTypes \cup {"PRIM_SVA_PAST", "PRIM_SVA_AT", "OPER_PSLPREV"}

\* The instances without the memory ports.  PRIM_other is a primitive and
\* OPER_other an operator that no branch of import_netlist names; "module"
\* is an instance of a user module.
PlainInsts ==
    {LoopInst(t, 1, 1, FALSE) :
        t \in ImmediateTypes \cup ClockedTypes
              \cup {"PRIM_PWR", "PRIM_BUF", "PRIM_AND", "PRIM_DLATCHRS", "PRIM_SVA_PAST",
                    "PRIM_SVA_AT", "PRIM_HDL_ASSERTION", "PRIM_other", "OPER_other", "module"}}
    \cup {LoopInst("OPER_PSLPREV", 1, sz, FALSE) : sz \in 1..2}
    \cup {LoopInst("OPER_PSLPREV", 1, 1, TRUE)}

\* The memory ports: OutputSize() of a read port and Input2Size() of a
\* write port are the width.
MemPorts == {LoopInst(t, w, 1, FALSE) : t \in MemPortTypes, w \in 1..MaxWordWidth}

RECURSIVE SeqsUpTo(_, _)
SeqsUpTo(S, n) ==
    IF n = 0 THEN {<<>>}
    ELSE LET shorter == SeqsUpTo(S, n - 1)
         IN shorter \cup {Append(s, x) : s \in {q \in shorter : Len(q) = n - 1}, x \in S}

\* inst->IsPrimitive() and inst->IsOperator().
IsPrimitive(inst) == inst.type \notin {"OPER_other", "OPER_PSLPREV", "module"} \cup MemPortTypes

IsOperatorInst(inst) == inst.type \in {"OPER_other", "OPER_PSLPREV"} \cup MemPortTypes

\* net_map_at(inst->GetX()) for the i-th instance.
InstPin(i, x) == <<"net", <<i, x>>>>

\* net->Size() of the RAM net: room for two words of the widest port.
RamBits == 2 * MaxWordWidth

Min(a, b) == IF a < b THEN a ELSE b

\* bits_in_word of the RAM net after FOREACH_PORTREF_OF_NET: the port
\* references of the net are the memory ports ps[from..].
RECURSIVE BitsInWord(_, _, _)
BitsInWord(bits_in_word, ps, from) ==
    IF from > Len(ps) THEN bits_in_word
    ELSE IF ps[from].type \in MemPortTypes
         THEN BitsInWord(Min(bits_in_word, ps[from].width), ps, from + 1)
         ELSE BitsInWord(bits_in_word, ps, from + 1)

\* A cell of the module, with the instance it was added for.
LoopCell(i, fn, name, ports, keep) ==
    [inst |-> i, fn |-> fn, name |-> name, ports |-> ports, keep |-> keep]

\* What one turn of FOREACH_INSTANCE_OF_NETLIST does: whether it ends in
\* log_error, the cells and connections it adds, the set of sva_asserts,
\* sva_assumes and sva_covers it puts the instance into, whether the
\* register goes into past_ffs, whether inst->View() goes into nl_todo, and
\* its warnings.
Turn(fatal, cs, conn, sva, past, todo, warn) ==
    [fatal |-> fatal, cells |-> cs, conns |-> conn, sva |-> sva, past |-> past,
     todo |-> todo, warn |-> warn]

Continue(cs) == Turn(FALSE, cs, {}, "", FALSE, FALSE, <<>>)

TurnFatal == Turn(TRUE, <<>>, {}, "", FALSE, FALSE, <<>>)

\* The cells of a lowering as cells of the module.
Lowered(i, cs) == [k \in 1..Len(cs) |-> LoopCell(i, cs[k].fn, cs[k].name, cs[k].ports, FALSE)]

\* The set the instance is put into after the lowerings.
SvaSetOf(inst) ==
    CASE inst.type = "PRIM_SVA_ASSERT" -> "sva_asserts"
      [] inst.type = "PRIM_SVA_ASSUME" -> "sva_assumes"
      [] inst.type = "PRIM_SVA_COVER" -> "sva_covers"
      [] OTHER -> ""

\* The unsupported-primitive test with PRIM_HDL_ASSERTION skipped in -k mode only.
PrimitiveErrorFirst(inst, md) == IsPrimitive(inst) /\ ~md.mode_keep

\* if (inst->IsPrimitive()) { if (inst->Type() == PRIM_HDL_ASSERTION) continue;
\* if (!mode_keep) log_error(...): whether the turn ends in log_error.
PrimitiveError(inst, md) ==
    IsPrimitive(inst) /\ inst.type # "PRIM_HDL_ASSERTION" /\ ~md.mode_keep

\* The end of a turn, from the test for SVA/PSL cells in non k-mode on;
\* cs, past and warn are what the turn has done before.
TurnEnd(inst, i, md, cs, past, warn) ==
    IF ~md.mode_keep /\ inst.type \in SvaPslPrims
    THEN Turn(FALSE, cs, {}, SvaSetOf(inst), past, FALSE, warn)
    ELSE IF PrimitiveError(inst, md)
    THEN Turn(TRUE, cs, {}, SvaSetOf(inst), past, FALSE, warn)
    ELSE IF IsPrimitive(inst) /\ inst.type = "PRIM_HDL_ASSERTION"
    THEN Turn(FALSE, cs, {}, SvaSetOf(inst), past, FALSE, warn)
    ELSE Turn(FALSE,
              Append(cs, LoopCell(i, "addCell", "inst_name",
                                  [type |-> IF IsOperatorInst(inst)
                                            THEN <<"$verific$", inst.type>>
                                            ELSE <<"\\", inst.type>>],
                                  IsPrimitive(inst) /\ md.mode_keep)),
              {}, SvaSetOf(inst), past, TRUE,
              IF IsPrimitive(inst) /\ inst.type \notin SvaPslPrims
              THEN Append(warn, "Unsupported Verific primitive")
              ELSE warn)

\* The register of PRIM_SVA_PAST and OPER_PSLPREV.
PastDff(i) ==
    LoopCell(i, "addDff", "NEW_ID",
             [CLK |-> <<InstPin(i, "clock_edge")>>, D |-> <<InstPin(i, "Input1")>>,
              Q |-> <<InstPin(i, "Output")>>],
             FALSE)

\* A turn from the sva_asserts test on, for an instance no lowering took.
TurnSva(inst, i, md, warn) ==
    IF inst.type = "PRIM_SVA_PAST" /\ ~md.mode_nosva
    THEN IF ~md.mode_keep
         THEN Turn(FALSE, <<PastDff(i)>>, {}, SvaSetOf(inst), TRUE, FALSE, warn)
         ELSE TurnEnd(inst, i, md, <<PastDff(i)>>, TRUE, warn)
    ELSE IF inst.type = "OPER_PSLPREV" /\ ~md.mode_nosva /\ ~inst.clock_const
    THEN IF ~md.mode_keep
         THEN Turn(FALSE, <<PastDff(i)>>, {}, SvaSetOf(inst), inst.size = 1, FALSE, warn)
         ELSE TurnEnd(inst, i, md, <<PastDff(i)>>, inst.size = 1, warn)
    ELSE TurnEnd(inst, i, md, <<>>, FALSE, warn)

\* The constraint cell of an immediate assertion, always an assert.
ImmediateAlwaysAssert(inst, i) ==
    LoopCell(i, "addAssert", "NEW_ID", [A |-> <<InstPin(i, "Input")>>, EN |-> <<S1>>], FALSE)

\* The constraint cell of an immediate assertion.
Immediate(inst, i) ==
    LoopCell(i,
             CASE inst.type = "PRIM_SVA_IMMEDIATE_ASSERT" -> "addAssert"
               [] inst.type = "PRIM_SVA_IMMEDIATE_ASSUME" -> "addAssume"
               [] inst.type = "PRIM_SVA_IMMEDIATE_COVER" -> "addCover",
             "NEW_ID", [A |-> <<InstPin(i, "Input")>>, EN |-> <<S1>>], FALSE)

\* The memory port test that lets every width through.
AsymmetricNever(width, inst) == FALSE

\* memory->width != int(inst->OutputSize()) and
\* memory->width != int(inst->Input2Size()).
Asymmetric(width, inst) == width # inst.width

\* One turn of the loop for instance i; mem is the memory of the RAM net.
InstanceTurn(inst, i, md, mem) ==
    IF inst.type \in ImmediateTypes THEN Continue(<<Immediate(inst, i)>>)
    ELSE IF inst.type = "PRIM_PWR"
    THEN Turn(FALSE, <<>>, {<<InstPin(i, "Output"), S1>>}, "", FALSE, FALSE, <<>>)
    ELSE IF inst.type = "PRIM_BUF"
    THEN Continue(<<LoopCell(i, "addBufGate", "inst_name",
                             [A |-> <<InstPin(i, "Input")>>, Y |-> <<InstPin(i, "Output")>>],
                             FALSE)>>)
    ELSE IF inst.type = "OPER_READ_PORT"
    THEN IF Asymmetric(mem.width, inst) THEN TurnFatal
         ELSE Continue(<<LoopCell(i, "$memrd", "inst_name",
                                  [ADDR |-> <<InstPin(i, "Input1")>>,
                                   DATA |-> <<InstPin(i, "Output")>>,
                                   WIDTH |-> inst.width, CLK_ENABLE |-> FALSE],
                                  FALSE)>>)
    ELSE IF inst.type \in {"OPER_WRITE_PORT", "OPER_CLOCKED_WRITE_PORT"}
    THEN IF Asymmetric(mem.width, inst) THEN TurnFatal
         ELSE Continue(<<LoopCell(i, "$memwr", "inst_name",
                                  [ADDR |-> <<InstPin(i, "Input1")>>,
                                   DATA |-> <<InstPin(i, "Input2")>>,
                                   WIDTH |-> inst.width,
                                   CLK_ENABLE |-> inst.type = "OPER_CLOCKED_WRITE_PORT"],
                                  FALSE)>>)
    ELSE LET lowered == IF ~md.mode_gates THEN ImportNetlistInstanceCells(inst)
                        ELSE ImportNetlistInstanceGates(inst)
         IN IF lowered.handled THEN Continue(Lowered(i, lowered.cells))
            ELSE TurnSva(inst, i, md,
                         IF ~md.mode_gates /\ IsOperatorInst(inst)
                            /\ inst.type \notin SvaPslPrims
                         THEN <<"Unsupported Verific operator">>
                         ELSE <<>>)

\* The state import_netlist is in before its loop over the nets, for the
\* instances insts and the RAM net ram.
LoopStart(insts, ram) ==
    /\ il_args \in SUBSET Options
    /\ il_modes = ParseArgs(il_args)
    /\ il_insts = insts
    /\ il_ram = ram
    /\ il_memory = NoMemory
    /\ il_cells = <<>>
    /\ il_conns = {}
    /\ il_sva = [s \in {"sva_asserts", "sva_assumes", "sva_covers"} |-> {}]
    /\ il_past_ffs = {}
    /\ il_todo = {}
    /\ il_warn = <<>>
    /\ il_calls = {}
    /\ il_i = 1
    /\ il_pc = "nets"

OthersIdleForLoop ==
    /\ IdleImport
    /\ IdleNet
    /\ IdleExt
    /\ IdleSva
    /\ IdleMerge
    /\ IdleLower
    /\ IdleEdge
    /\ IdleCmd

\* A netlist without a RAM net.
InitLoop ==
    /\ OthersIdleForLoop
    /\ \E insts \in SeqsUpTo(PlainInsts, MaxLoopInsts) \ {<<>>} : LoopStart(insts, NoRam)

\* A netlist with one RAM net and its memory ports; other says that a
\* port reference of the net belongs to an instance of another type.
InitMem ==
    /\ OthersIdleForLoop
    /\ \E insts \in SeqsUpTo(MemPorts, MaxMemPorts) \ {<<>>} :
          \E other \in BOOLEAN : LoopStart(insts, [bits |-> RamBits, other |-> other])

\* FOREACH_NET_OF_NETLIST, as far as the RAM net goes.
ImportRamNet ==
    /\ il_pc = "nets"
    /\ IF il_ram = NoRam
       THEN il_memory' = il_memory /\ il_pc' = "insts"
       ELSE IF il_ram.other
       THEN il_memory' = il_memory /\ il_pc' = "fatal"
       ELSE LET bits_in_word == BitsInWord(il_ram.bits, il_insts, 1)
            IN /\ il_memory' = [width |-> bits_in_word, size |-> il_ram.bits \div bits_in_word]
               /\ il_pc' = "insts"
    /\ UNCHANGED <<il_args, il_modes, il_insts, il_ram, il_cells, il_conns, il_sva,
                   il_past_ffs, il_todo, il_warn, il_calls, il_i>>

\* One turn of FOREACH_INSTANCE_OF_NETLIST.
ImportInstance ==
    /\ il_pc = "insts"
    /\ il_i <= Len(il_insts)
    /\ LET inst == il_insts[il_i]
           t == InstanceTurn(inst, il_i, il_modes, il_memory)
       IN /\ il_cells' = il_cells \o t.cells
          /\ il_conns' = il_conns \cup t.conns
          /\ il_sva' = IF t.sva = "" THEN il_sva
                       ELSE [il_sva EXCEPT ![t.sva] = @ \cup {il_i}]
          /\ il_past_ffs' = IF t.past THEN il_past_ffs \cup {il_i} ELSE il_past_ffs
          /\ il_todo' = IF t.todo THEN il_todo \cup {inst.type} ELSE il_todo
          /\ il_warn' = il_warn \o t.warn
          /\ il_pc' = IF t.fatal THEN "fatal" ELSE "insts"
          /\ il_i' = IF t.fatal THEN il_i ELSE il_i + 1
    /\ UNCHANGED <<il_args, il_modes, il_insts, il_ram, il_memory, il_calls>>

\* if (!mode_nosvapp) { svapp_assert, svapp_assume, svapp_cover }: what
\* VerificSvaPP::run does is a comment, so only the calls are kept.
SvaPP ==
    /\ il_pc = "insts"
    /\ il_i > Len(il_insts)
    /\ il_calls' = IF ~il_modes.mode_nosvapp
                   THEN il_calls
                           \cup {<<"svapp_assert", i>> : i \in il_sva["sva_asserts"]}
                           \cup {<<"svapp_assume", i>> : i \in il_sva["sva_assumes"]}
                           \cup {<<"svapp_cover", i>> : i \in il_sva["sva_covers"]}
                   ELSE il_calls
    /\ il_pc' = "sva"
    /\ UNCHANGED <<il_args, il_modes, il_insts, il_ram, il_memory, il_cells, il_conns,
                   il_sva, il_past_ffs, il_todo, il_warn, il_i>>

\* if (!mode_nosva) { import_sva_assert, import_sva_assume, import_sva_cover,
\* merge_past_ffs(past_ffs) }.
ImportSva ==
    /\ il_pc = "sva"
    /\ il_calls' = IF ~il_modes.mode_nosva
                   THEN il_calls
                           \cup {<<"import_sva_assert", i>> : i \in il_sva["sva_asserts"]}
                           \cup {<<"import_sva_assume", i>> : i \in il_sva["sva_assumes"]}
                           \cup {<<"import_sva_cover", i>> : i \in il_sva["sva_covers"]}
                           \cup {<<"merge_past_ffs", il_past_ffs>>}
                   ELSE il_calls
    /\ il_pc' = "done"
    /\ UNCHANGED <<il_args, il_modes, il_insts, il_ram, il_memory, il_cells, il_conns,
                   il_sva, il_past_ffs, il_todo, il_warn, il_i>>

NextLoop ==
    \/ ImportRamNet /\ UNCHANGED <<importVars, netVars, extVars, svaVars, mergeVars, lowerVars, edgeVars, cmdVars>>
    \/ ImportInstance /\ UNCHANGED <<importVars, netVars, extVars, svaVars, mergeVars, lowerVars, edgeVars, cmdVars>>
    \/ SvaPP /\ UNCHANGED <<importVars, netVars, extVars, svaVars, mergeVars, lowerVars, edgeVars, cmdVars>>
    \/ ImportSva /\ UNCHANGED <<importVars, netVars, extVars, svaVars, mergeVars, lowerVars, edgeVars, cmdVars>>

SpecLoop == InitLoop /\ [][NextLoop]_vars

SpecMem == InitMem /\ [][NextLoop]_vars

(***************************************************************************)
(* One "verific" command: VerificPass::execute from the mode parameter to  *)
(* check_error, with the Verific message callback msg_func.                *)
(***************************************************************************)

\* The files of an analysis command and the top modules of -import.
CmdNetlists == 1..NumCmdNetlists

\* msg_type_t
MsgTypes ==
    {"VERIFIC_NONE", "VERIFIC_ERROR", "VERIFIC_WARNING", "VERIFIC_IGNORE",
     "VERIFIC_INFO", "VERIFIC_COMMENT", "VERIFIC_PROGRAM_ERROR"}

\* The texts a Verific message can have.
MsgTexts == {"m1", "m2"}

\* The command lines: an analysis mode with its files, -import with its
\* options and top modules, or no mode parameter.
CmdArgs ==
    [mode : {"analyze", "import", "none"}, names : SUBSET CmdNetlists,
     flatten : BOOLEAN, extnets : BOOLEAN, nosvapp : BOOLEAN]

\* a variant of Latch that keeps the last error message
LatchLastError(cur, msg_type, message) ==
    IF msg_type = "VERIFIC_ERROR" \/ msg_type = "VERIFIC_PROGRAM_ERROR"
    THEN message ELSE cur

\* if (verific_error_msg.empty() && (msg_type == VERIFIC_ERROR ||
\*     msg_type == VERIFIC_PROGRAM_ERROR)) verific_error_msg = message;
Latch(cur, msg_type, message) ==
    IF cur = "" /\ (msg_type = "VERIFIC_ERROR" \/ msg_type = "VERIFIC_PROGRAM_ERROR")
    THEN message ELSE cur

\* VerificSvaPP::run with the call impl_to_seq(root) in place: the root is
\* connected to another net.
SvaPPImplToSeq(graph, nl) == Append(graph, <<"impl_to_seq", nl>>)

\* VerificSvaPP::run: it sets the worker's module and netlist and makes
\* no call that changes the netlist.
SvaPPRun(graph, nl) == graph

\* The first element of a for loop over a std::set or over the arguments.
First(S) == CHOOSE x \in S : \A y \in S : x <= y

\* log_cmd_error or log_error with the text msg.
CmdFatal(msg) ==
    /\ cm_pc' = "fatal"
    /\ cm_fatal' = msg

\* Where execute goes on after the elaboration ("elaborate"), after the
\* flatten loop ("flatten") and after the -extnets loop ("extnets").
AfterStage(stage, todo) ==
    IF stage = "elaborate" /\ cm_args.flatten THEN [pc |-> "flatten", left |-> todo]
    ELSE IF stage \in {"elaborate", "flatten"} /\ cm_args.extnets
         THEN [pc |-> "extnets", left |-> todo]
    ELSE [pc |-> "worklist", left |-> {}]

InitCmd ==
    /\ IdleImport
    /\ IdleNet
    /\ IdleExt
    /\ IdleSva
    /\ IdleMerge
    /\ IdleLower
    /\ IdleEdge
    /\ IdleLoop
    /\ cm_args \in CmdArgs
    /\ cm_pc = "args"
    /\ verific_error_msg = ""
    /\ cm_errs = <<>>
    /\ cm_nmsg = 0
    /\ cm_fatal = ""
    /\ cm_graph = <<>>
    /\ cm_snap = NoSnap
    /\ cm_left = {}
    /\ cm_todo = {}
    /\ cm_done = {}
    /\ cm_module = {}
    /\ cm_roots = <<0, 0>>

\* The mode parameter: an analysis mode, -import, or none.
CmdMode ==
    /\ cm_pc = "args"
    /\ CASE cm_args.mode = "none" ->
               /\ CmdFatal("Missing or unsupported mode parameter.")
               /\ UNCHANGED cm_left
         [] cm_args.mode = "analyze" ->
               /\ cm_pc' = IF cm_args.names = {} THEN "check_error" ELSE "analyze"
               /\ cm_left' = cm_args.names
               /\ UNCHANGED cm_fatal
         [] cm_args.mode = "import" ->
               IF cm_args.names = {}
               THEN CmdFatal("No top module specified.") /\ UNCHANGED cm_left
               ELSE /\ cm_pc' = "elaborate"
                    /\ cm_left' = cm_args.names
                    /\ UNCHANGED cm_fatal
    /\ UNCHANGED <<cm_args, verific_error_msg, cm_errs, cm_nmsg, cm_graph, cm_snap,
                   cm_todo, cm_done, cm_module, cm_roots>>

\* msg_func, called by Verific while one of its functions runs.
MsgFunc ==
    /\ cm_pc \in {"analyze", "elaborate", "flatten", "extnets", "worklist", "svapp"}
    /\ cm_nmsg < MaxMsgs
    /\ \E msg_type \in MsgTypes, message \in MsgTexts :
          /\ verific_error_msg' = Latch(verific_error_msg, msg_type, message)
          /\ cm_errs' = IF msg_type \in {"VERIFIC_ERROR", "VERIFIC_PROGRAM_ERROR"}
                        THEN Append(cm_errs, message) ELSE cm_errs
    /\ cm_nmsg' = cm_nmsg + 1
    /\ UNCHANGED <<cm_args, cm_pc, cm_fatal, cm_graph, cm_snap, cm_left, cm_todo,
                   cm_done, cm_module, cm_roots>>

\* One turn of for (argidx++; argidx < GetSize(args); argidx++) of an
\* analysis mode: veri_file::Analyze or vhdl_file::Analyze.
CmdAnalyze ==
    /\ cm_pc = "analyze"
    /\ \E ok \in BOOLEAN :
          IF ok
          THEN /\ cm_left' = cm_left \ {First(cm_left)}
               /\ cm_pc' = IF cm_left' = {} THEN "check_error" ELSE "analyze"
               /\ UNCHANGED cm_fatal
          ELSE CmdFatal("Reading failed.") /\ UNCHANGED cm_left
    /\ UNCHANGED <<cm_args, verific_error_msg, cm_errs, cm_nmsg, cm_graph, cm_snap,
                   cm_todo, cm_done, cm_module, cm_roots>>

\* One turn of the loop over the top modules of -import:
\* veri_file::Elaborate or vhdl_file::Elaborate builds the netlist.
CmdElaborate ==
    /\ cm_pc = "elaborate"
    /\ LET nl == First(cm_left)
       IN \E ok \in BOOLEAN :
             IF ok
             THEN /\ cm_graph' = Append(cm_graph, <<"Elaborate", nl>>)
                  /\ cm_todo' = cm_todo \cup {nl}
                  /\ IF cm_left = {nl}
                     THEN /\ cm_pc' = AfterStage("elaborate", cm_todo').pc
                          /\ cm_left' = AfterStage("elaborate", cm_todo').left
                     ELSE /\ cm_pc' = "elaborate"
                          /\ cm_left' = cm_left \ {nl}
                  /\ UNCHANGED cm_fatal
             ELSE /\ CmdFatal("Elaboration of top module failed.")
                  /\ UNCHANGED <<cm_graph, cm_todo, cm_left>>
    /\ UNCHANGED <<cm_args, verific_error_msg, cm_errs, cm_nmsg, cm_snap, cm_done,
                   cm_module, cm_roots>>

\* One turn of for (auto nl : nl_todo) nl->Flatten();
CmdFlatten ==
    /\ cm_pc = "flatten"
    /\ LET nl == First(cm_left)
       IN /\ cm_graph' = Append(cm_graph, <<"Flatten", nl>>)
          /\ IF cm_left = {nl}
             THEN /\ cm_pc' = AfterStage("flatten", cm_todo).pc
                  /\ cm_left' = AfterStage("flatten", cm_todo).left
             ELSE /\ cm_pc' = "flatten"
                  /\ cm_left' = cm_left \ {nl}
    /\ UNCHANGED <<cm_args, verific_error_msg, cm_errs, cm_nmsg, cm_fatal, cm_snap,
                   cm_todo, cm_done, cm_module, cm_roots>>

\* One turn of for (auto nl : nl_todo) worker.run(nl): VerificExtNets adds
\* ports and nets when the netlist has external nets.
CmdExtNets ==
    /\ cm_pc = "extnets"
    /\ LET nl == First(cm_left)
       IN /\ \E external \in BOOLEAN :
                cm_graph' = IF external THEN Append(cm_graph, <<"VerificExtNets", nl>>)
                            ELSE cm_graph
          /\ IF cm_left = {nl}
             THEN /\ cm_pc' = AfterStage("extnets", cm_todo).pc
                  /\ cm_left' = AfterStage("extnets", cm_todo).left
             ELSE /\ cm_pc' = "extnets"
                  /\ cm_left' = cm_left \ {nl}
    /\ UNCHANGED <<cm_args, verific_error_msg, cm_errs, cm_nmsg, cm_fatal, cm_snap,
                   cm_todo, cm_done, cm_module, cm_roots>>

\* One turn of while (!nl_todo.empty()) up to the svapp_* calls of
\* import_netlist: the module gets its cells, the netlists of the
\* hierarchical instances go into nl_todo, and log_error ends the command
\* when the netlist has something import_netlist does not take.
WorkList ==
    /\ cm_pc = "worklist"
    /\ cm_todo # {}
    /\ LET nl == First(cm_todo)
       IN IF nl \in cm_done
          THEN /\ cm_todo' = cm_todo \ {nl}
               /\ UNCHANGED <<cm_pc, cm_fatal, cm_snap, cm_left, cm_done, cm_module, cm_roots>>
          ELSE /\ cm_snap' = IF cm_snap = NoSnap THEN cm_graph ELSE cm_snap
               /\ \E subs \in SUBSET {m \in CmdNetlists : m > nl}, error \in BOOLEAN,
                     roots \in 0..MaxSvaRoots :
                     /\ cm_module' = {<<nl, "cell", m>> : m \in subs}
                     /\ cm_todo' = cm_todo \cup subs
                     /\ IF error
                        THEN /\ CmdFatal("import_netlist failed.")
                             /\ UNCHANGED <<cm_left, cm_roots>>
                        ELSE /\ cm_pc' = "svapp"
                             /\ cm_left' = {nl}
                             /\ cm_roots' = <<roots, 0>>
                             /\ UNCHANGED cm_fatal
               /\ UNCHANGED cm_done
    /\ UNCHANGED <<cm_args, verific_error_msg, cm_errs, cm_nmsg, cm_graph>>

\* One call of svapp_assert, svapp_assume or svapp_cover.
CmdSvaPP ==
    /\ cm_pc = "svapp"
    /\ ~cm_args.nosvapp
    /\ cm_roots[2] < cm_roots[1]
    /\ cm_graph' = SvaPPRun(cm_graph, First(cm_left))
    /\ cm_roots' = <<cm_roots[1], cm_roots[2] + 1>>
    /\ UNCHANGED <<cm_args, cm_pc, verific_error_msg, cm_errs, cm_nmsg, cm_fatal, cm_snap,
                   cm_left, cm_todo, cm_done, cm_module>>

\* The rest of the turn: the import_sva_* calls add the constraint cells,
\* import_netlist returns, and the netlist moves from nl_todo to nl_done.
WorkListDone ==
    /\ cm_pc = "svapp"
    /\ cm_args.nosvapp \/ cm_roots[2] = cm_roots[1]
    /\ LET nl == First(cm_left)
       IN /\ \E sva \in BOOLEAN :
                cm_module' = IF sva THEN cm_module \cup {<<nl, "sva", 0>>} ELSE cm_module
          /\ cm_todo' = cm_todo \ {nl}
          /\ cm_done' = cm_done \cup {nl}
    /\ cm_pc' = "worklist"
    /\ cm_left' = {}
    /\ cm_roots' = <<0, 0>>
    /\ UNCHANGED <<cm_args, verific_error_msg, cm_errs, cm_nmsg, cm_fatal, cm_graph, cm_snap>>

\* The loop is left: Libset::Reset() gives the source graph up.
WorkListEnd ==
    /\ cm_pc = "worklist"
    /\ cm_todo = {}
    /\ cm_graph' = <<>>
    /\ cm_pc' = "check_error"
    /\ UNCHANGED <<cm_args, verific_error_msg, cm_errs, cm_nmsg, cm_fatal, cm_snap, cm_left,
                   cm_todo, cm_done, cm_module, cm_roots>>

\* check_error: if (!verific_error_msg.empty()) log_error("%s\n", ...);
CheckError ==
    /\ cm_pc = "check_error"
    /\ IF verific_error_msg # ""
       THEN CmdFatal(verific_error_msg)
       ELSE cm_pc' = "done" /\ UNCHANGED cm_fatal
    /\ UNCHANGED <<cm_args, verific_error_msg, cm_errs, cm_nmsg, cm_graph, cm_snap, cm_left,
                   cm_todo, cm_done, cm_module, cm_roots>>

NextCmd ==
    \/ CmdMode /\ UNCHANGED <<importVars, netVars, extVars, svaVars, mergeVars, lowerVars, edgeVars, loopVars>>
    \/ MsgFunc /\ UNCHANGED <<importVars, netVars, extVars, svaVars, mergeVars, lowerVars, edgeVars, loopVars>>
    \/ CmdAnalyze /\ UNCHANGED <<importVars, netVars, extVars, svaVars, mergeVars, lowerVars, edgeVars, loopVars>>
    \/ CmdElaborate /\ UNCHANGED <<importVars, netVars, extVars, svaVars, mergeVars, lowerVars, edgeVars, loopVars>>
    \/ CmdFlatten /\ UNCHANGED <<importVars, netVars, extVars, svaVars, mergeVars, lowerVars, edgeVars, loopVars>>
    \/ CmdExtNets /\ UNCHANGED <<importVars, netVars, extVars, svaVars, mergeVars, lowerVars, edgeVars, loopVars>>
    \/ WorkList /\ UNCHANGED <<importVars, netVars, extVars, svaVars, mergeVars, lowerVars, edgeVars, loopVars>>
    \/ CmdSvaPP /\ UNCHANGED <<importVars, netVars, extVars, svaVars, mergeVars, lowerVars, edgeVars, loopVars>>
    \/ WorkListDone /\ UNCHANGED <<importVars, netVars, extVars, svaVars, mergeVars, lowerVars, edgeVars, loopVars>>
    \/ WorkListEnd /\ UNCHANGED <<importVars, netVars, extVars, svaVars, mergeVars, lowerVars, edgeVars, loopVars>>
    \/ CheckError /\ UNCHANGED <<importVars, netVars, extVars, svaVars, mergeVars, lowerVars, edgeVars, loopVars>>

SpecCmd == InitCmd /\ [][NextCmd]_vars

(***************************************************************************)
(* Claims about net_map and net_map_at.                                    *)
(***************************************************************************)

\* A step keeps every entry of net_map as it is.
KeepsEntries ==
    \A n \in DOMAIN net_map : n \in DOMAIN net_map' /\ net_map'[n] = net_map[n]

\* Any two calls of net_map_at that returned for the same net returned the same bit.
SameBit ==
    \A a, b \in lookups :
        (a.net = b.net /\ a.err = "" /\ b.err = "") => a.bit = b.bit

\* C2: within one import_netlist pass no port, port bus, net or net bus
\* step overwrites or removes an entry of net_map, and any two lookups of
\* the same net of the netlist return the identical SigBit.
C2_IdempotentNetMapping == [][KeepsEntries]_vars /\ []SameBit

\* A net with two scalar ports that is also an element of the net bus has
\* been looked up more than once by the time the instances are imported.
C2_Witness ==
    /\ nm_pc = "insts"
    /\ \E n \in relooked :
          /\ src_net[n].ports = 2 /\ src_net[n].netbus
          /\ \E l \in lookups : l.net = n /\ l.err = ""

\* C3: net_map_at for a net external to the netlist raises the fatal error
\* and returns no signal, so no pin and no connection of the module is
\* wired to the signal of a net of another netlist.
C3_ExternalNetFatal ==
    /\ \A l \in lookups :
          IsExternalTo(l.net) => l.err = "log_error" /\ l.bit = NoBit /\ nm_pc = "fatal"
    /\ \A c \in conns : \A n \in DOMAIN net_map :
          IsExternalTo(n) => c.lhs # net_map[n] /\ c.rhs # net_map[n]

\* The pass has stopped at a lookup of an external net that a port had
\* entered into net_map.
C3_Witness ==
    /\ nm_pc = "fatal"
    /\ \E l \in lookups :
          IsExternalTo(l.net) /\ l.err = "log_error" /\ l.net \in DOMAIN net_map

(***************************************************************************)
(* Claims about VerificExtNets.                                            *)
(***************************************************************************)
\* The netlist instantiating m, when m has exactly one reference.
ParentNetlist(m) == en_insts[GetLastReference(m)].owner

\* The number of levels from netlist m up to netlist n along netlists that
\* each have exactly one reference, or -1 when there is no such chain.
RECURSIVE ChainDepth(_, _)
ChainDepth(m, n) ==
    IF m = n THEN 0
    ELSE IF NumOfRefs(m) # 1 THEN -1
    ELSE LET d == ChainDepth(ParentNetlist(m), n)
         IN IF d < 0 THEN -1 ELSE d + 1

\* net is owned by a netlist that lies below n along such a chain.
BelowUniquely(net, n) == ChainDepth(net_owner[net], n) >= 1

\* C4: in run(N), when the net of an instance port is owned by a netlist
\* that lies below N along a chain of netlists each instantiated exactly
\* once, the while loop makes at most as many get_net_level_up calls as
\* the chain has levels, ends without the break, and the port is
\* reconnected to a net that N owns.
C4_LevelUpWalkTerminates ==
    /\ (en_pc = "walk" /\ BelowUniquely(walk.orig, Head(run_order)))
          => walk.steps <= ChainDepth(net_owner[walk.orig], Head(run_order))
    /\ \A t \in todo_connect :
          BelowUniquely(t.orig, Head(run_order)) =>
             /\ t.steps <= ChainDepth(net_owner[t.orig], Head(run_order))
             /\ ~t.stopped
             /\ net_owner[t.net] = Head(run_order)
    /\ \A f \in fixed :
          BelowUniquely(f.orig, f.nl) =>
             /\ f.steps <= ChainDepth(net_owner[f.orig], f.nl)
             /\ ~f.stopped
             /\ portrefs[f.inst] = f.net
             /\ net_owner[portrefs[f.inst]] = f.nl

C4_Witness ==
    \E f \in fixed :
        /\ ChainDepth(net_owner[f.orig], f.nl) = 2
        /\ f.steps = 2
        /\ portrefs[f.inst] = f.net
        /\ f.net # f.orig

\* A get_net_level_up call for a net whose owner does not have exactly one
\* reference: nothing is created or recorded, and the while loop breaks with
\* the same net, still external, pushed to todo_connect.
LevelUpOfNotUnique ==
    (/\ en_pc = "walk"
     /\ NetIsExternalTo(walk.net, Head(run_order))
     /\ NumOfRefs(net_owner[walk.net]) # 1)
    => /\ net_owner' = net_owner
       /\ new_ports' = new_ports
       /\ new_portrefs' = new_portrefs
       /\ portname_cnt' = portname_cnt
       /\ net_level_up' = net_level_up
       /\ en_pc' = "loop"
       /\ \E t \in todo_connect' :
             /\ t.inst = walk.inst
             /\ t.net = walk.net
             /\ t.stopped
             /\ net_owner'[t.net] # Head(run_order)

\* After such a break the port is connected to the net the walk stopped at,
\* and that net is external to the netlist of the instance.
StaysExternal ==
    \A f \in fixed :
        f.stopped => /\ portrefs[f.inst] = f.net
                     /\ NumOfRefs(net_owner[f.net]) # 1
                     /\ net_owner[portrefs[f.inst]] # f.nl

\* C5: get_net_level_up on a net whose owning netlist is not instantiated
\* exactly once returns the same net and creates no port and no net; the
\* while loop of run stops there and the instance port stays connected to a
\* net that is external to the netlist.
C5_NotUniqueLeftExternal == [][LevelUpOfNotUnique]_vars /\ []StaysExternal

C5_Witness ==
    \E f \in fixed :
        /\ f.stopped
        /\ NumOfRefs(net_owner[f.net]) = 2
        /\ portrefs[f.inst] = f.net
        /\ net_owner[f.net] # f.nl
        /\ portname_cnt = 0

(***************************************************************************)
(* Claims about VerificSvaImporter.                                        *)
(***************************************************************************)
\* The positions of sva_log that hold a sequence_ff call.
FfCalls == {i \in 1..Len(sva_log) : sva_log[i][1] = "ff"}

CellsOfType(type) == {i \in 1..Len(sva_cells) : sva_cells[i].type = type}

\* Exactly k sequence_ff calls follow position i of sva_log, and then
\* parse_sequence is called for node q.
FfThenParse(i, k, q) ==
    /\ i + k + 1 <= Len(sva_log)
    /\ \A j \in 1..k : sva_log[i + j][1] = "ff"
    /\ sva_log[i + k + 1] = <<"parse", q>>

\* Each sequence_ff call made one $dff for sig_a and one for sig_en, on
\* the two wires it made.
PairPerFf ==
    /\ Cardinality(CellsOfType("$dff")) = 2 * Cardinality(FfCalls)
    /\ \A i \in FfCalls :
          /\ Cardinality({c \in CellsOfType("$dff") :
                             sva_cells[c].y = WireSig(sva_log[i][2])}) = 1
          /\ Cardinality({c \in CellsOfType("$dff") :
                             sva_cells[c].y = WireSig(sva_log[i][2] + 1)}) = 1

\* C6: after parse_sequence returns for the left input of a sequence
\* concatenation with sva:low = sva:high = N, exactly N sequence_ff calls
\* follow and then the right input is parsed; for a non-overlapped
\* implication (SVA) and a suffix implication (PSL) exactly one call
\* follows; each sequence_ff call adds one register for the active signal
\* and one for the enabled signal.
C6_DelayPairsPerOperator ==
    /\ \A i \in 1..Len(sva_log) :
          (sva_log[i][1] = "ret" /\ sva_log[i][2] > 1 /\ sva_log[i][2] % 2 = 0) =>
             LET left == sva_log[i][2]
                 n == NodeAt(sva_prop.ast, left \div 2)
             IN /\ (n[1] = "SVA_SEQ_CONCAT" /\ n[2] = n[3])
                      => FfThenParse(i, n[2], left + 1)
                /\ n[1] \in {"SVA_NON_OVERLAPPED_IMPLICATION", "SUFFIX_IMPL"}
                      => FfThenParse(i, 1, left + 1)
    /\ PairPerFf

C6_Witness ==
    /\ sva_pc = "done"
    /\ sva_prop.ast[1] = "SVA_SEQ_CONCAT"
    /\ sva_prop.ast[2] = 2
    /\ sva_prop.ast[3] = 2
    /\ Cardinality(FfCalls) = 3
    /\ Cardinality(CellsOfType("$dff")) = 6

\* C7: once parse_sequence is called for a sequence concatenation or a
\* consecutive repetition whose sva:low differs from sva:high, the run ends
\* in log_error at that call: nothing is parsed after it and no assert,
\* assume or cover cell is made.
C7_RangeIsHardError ==
    \A i \in 1..Len(sva_log) :
        LET n == NodeAt(sva_prop.ast, sva_log[i][2])
        IN (/\ sva_log[i][1] = "parse"
            /\ n[1] \in {"SVA_SEQ_CONCAT", "SVA_CONSECUTIVE_REPEAT"}
            /\ n[2] # n[3])
           => /\ sva_pc = "fatal"
              /\ i = Len(sva_log)
              /\ CellsOfType("$assert") \cup CellsOfType("$assume")
                    \cup CellsOfType("$cover") = {}

\* assert property (@(posedge clk) sig |=> sig2): sig is net 2, sig2 net 3.
SigImpliesNextSig2 ==
    /\ sva_prop.ast = Node(<<"SVA_NON_OVERLAPPED_IMPLICATION", 0, 0>>, <<Leaf, Leaf>>)
    /\ sva_prop.kind = "assert"
    /\ sva_prop.posedge
    /\ sva_prop.disable = "none"

\* What the constraint cell sees in the current cycle on input A (active)
\* and on input EN (enabled); both are register outputs.
SeenActive == Eval(sva_cells[Len(sva_cells)].a, sva_cells, sim_regs, <<>>)

SeenEnabled == Eval(sva_cells[Len(sva_cells)].b, sva_cells, sim_regs, <<>>)

\* C8: for assert sig |=> sig2 on a positive edge without disable
\* condition the module gets two pairs of registers and one $assert cell;
\* in cycle t+2 the cell sees enabled = 1 with active = 0 exactly when sig
\* was 1 in cycle t and sig2 was 0 in cycle t+1, and it sees active = 1
\* and enabled = 1 when sig was 1 in cycle t and sig2 was 1 in cycle t+1.
C8_ImplicationEndToEnd ==
    (SigImpliesNextSig2 /\ sva_pc = "done") =>
       /\ Cardinality(CellsOfType("$dff")) = 4
       /\ Cardinality(FfCalls) = 2
       /\ \A c \in CellsOfType("$dff") : sva_cells[c].pol
       /\ CellsOfType("$assert") = {Len(sva_cells)}
       /\ CellsOfType("$assume") \cup CellsOfType("$cover") \cup CellsOfType("$mux") = {}
       /\ sim_cycle >= 2 =>
             LET sig == sim_hist[2][2]
                 sig2 == sim_hist[1][3]
             IN /\ (SeenEnabled = 1 /\ SeenActive = 0) <=> (sig = 1 /\ sig2 = 0)
                /\ (sig = 1 /\ sig2 = 1) => (SeenActive = 1 /\ SeenEnabled = 1)

C8_Witness ==
    /\ SigImpliesNextSig2
    /\ sva_pc = "done"
    /\ sim_cycle = MaxCycles
    /\ sim_hist[2][2] = 1
    /\ sim_hist[1][3] = 0
    /\ SeenEnabled = 1
    /\ SeenActive = 0

(***************************************************************************)
(* Claims about merge_past_ffs.                                            *)
(***************************************************************************)
\* The D input of candidate c as the current turn of the loop sees it.
ResolvedD(c) == SigMapOf(sigmap, past_ffs[c].d)

\* The maximal runs <<wire, offset, width>> of two or more consecutive
\* bits of one wire among the bits B; constants form no run.
MaximalRuns(B) ==
    {r \in {b[1] : b \in B} \X {b[2] : b \in B} \X (2..Cardinality(B)) :
        /\ r[1] # ConstWire
        /\ \A j \in 0..(r[3] - 1) : <<r[1], r[2] + j>> \in B
        /\ <<r[1], r[2] - 1>> \notin B
        /\ <<r[1], r[2] + r[3]>> \notin B}

InRun(b, r) == b[1] = r[1] /\ b[2] >= r[2] /\ b[2] < r[2] + r[3]

TurnRuns == MaximalRuns({ResolvedD(c) : c \in candidates})

\* The registers of past_ffs with clock key k and D input b.
SameClockSameD(k, b) ==
    {i \in DOMAIN past_ffs : ClockKey(past_ffs[i]) = k /\ past_ffs[i].d = b}

\* C9 as stated: when merge_past_ffs has returned, every set of m >= 2
\* registers of past_ffs with the same clock, the same polarity and the
\* identical D bit has been replaced by exactly one new register of width
\* m, and all m registers have been removed.
C9_OneRegisterPerSharedBit ==
    (mg_pc = "done" /\ mg_run = 1) =>
       \A i \in DOMAIN past_ffs :
          LET S == SameClockSameD(ClockKey(past_ffs[i]), past_ffs[i].d)
          IN Cardinality(S) >= 2 =>
                /\ \A c \in S : PastCell(c) \notin mod_ffs
                /\ Cardinality({l \in mg_log : l.old = S /\ Len(l.d) = Cardinality(S)}) = 1

\* One turn of the loop: one new register per maximal run, of the width
\* of the run, with the bits of the run as D and the clock and polarity of
\* the candidates; the candidates whose D bit lies in the run are removed
\* and their Q connected to the Q bit at the place of their D bit; every
\* other candidate stays.
OneRegisterPerRun ==
    mg_pc = "loop" =>
       /\ Cardinality(mod_ffs' \ mod_ffs) = Cardinality(TurnRuns)
       /\ \A r \in TurnRuns :
             \E f \in mod_ffs' \ mod_ffs :
                /\ f.width = r[3]
                /\ f.d = [i \in 1..r[3] |-> <<r[1], r[2] + i - 1>>]
                /\ <<f.clk, IF f.pol THEN 1 ELSE 0>> = Head(database)
                /\ \A c \in candidates :
                      InRun(ResolvedD(c), r) =>
                         /\ PastCell(c) \notin mod_ffs'
                         /\ c \notin candidates'
                         /\ <<<<QWire(c), 0>>, <<f.wire, ResolvedD(c)[2] - r[2]>>>>
                               \in mod_conns'
       /\ \A c \in candidates :
             (\A r \in TurnRuns : ~InRun(ResolvedD(c), r)) =>
                /\ PastCell(c) \in mod_ffs'
                /\ c \in candidates'

\* C9, amended: in every turn of the merge loop, for every maximal run of
\* k >= 2 consecutive bits of one wire among the D bits of the candidates
\* of one clock and polarity, exactly one new k-bit register is made and
\* every candidate whose D bit lies in the run is removed; a candidate
\* whose D bit is a constant or has no neighbouring D bit stays, also when
\* other candidates have the identical D bit.
C9_OneRegisterPerRun == [][OneRegisterPerRun]_vars

C9_Witness ==
    /\ mg_pc = "done"
    /\ \E l \in mg_log : Len(l.d) = 2
    /\ \E i \in Remaining :
          /\ Cardinality(SameClockSameD(ClockKey(past_ffs[i]), past_ffs[i].d)) >= 2
          /\ past_ffs[i].d[1] = VecWire

\* The registers of past_ffs with the clock key the loop is running for.
GroupOfKey == {i \in DOMAIN past_ffs : ClockKey(past_ffs[i]) = Head(database)}

\* C10: the merge loop ends (every turn that is followed by another one
\* removes at least two candidates); when it is left no run of two or
\* more D bits is left among the remaining candidates; and a second call
\* for the cells that are left adds no register, removes no register and
\* adds no connection.
C10_MergeFixedPoint ==
    /\ mg_pc = "loop" => 2 * mg_iter + Cardinality(candidates) <= Cardinality(GroupOfKey)
    /\ mg_pc = "exit" => TurnRuns = {}
    /\ mg_run = 2 => (mod_ffs = mg_snap.ffs /\ mod_conns = mg_snap.conns)

C10_Witness ==
    /\ mg_run = 2
    /\ mg_pc = "done"
    /\ mg_log # {}
    /\ \E i \in Remaining : \E l \in mg_log :
          /\ l.iter = 1
          /\ i - 2 \in l.old
          /\ past_ffs[i].d = <<QWire(i - 2), 0>>

(***************************************************************************)
(* Claims about the two lowerings of a primitive.                          *)
(***************************************************************************)
BothLowered == lw_gates # <<>> /\ lw_cells # <<>>

GateValues == EvalCells(InputEnv, lw_gates.cells)

CellValues == EvalCells(InputEnv, lw_cells.cells)

FaddTotal == lw_in["Input1"] + lw_in["Input2"] + lw_in["Cin"]

\* C11: for PRIM_FADD the cells of the two lowerings give the same value on
\* the sum net and on the carry-out net, namely the low and the high bit of
\* a + b + cin, for every value of a, b and cin, also when GetCout() or
\* GetOutput() is no net.
C11_FaddLoweringsAgree ==
    (BothLowered /\ lw_inst.type = "PRIM_FADD") =>
       /\ lw_gates.handled /\ lw_cells.handled
       /\ lw_inst.out =>
             /\ GateValues[Pin("Output")] = FaddTotal % 2
             /\ CellValues[Pin("Output")] = FaddTotal % 2
       /\ lw_inst.cout =>
             /\ GateValues[Pin("Cout")] = FaddTotal \div 2
             /\ CellValues[Pin("Cout")] = FaddTotal \div 2

C11_Witness ==
    /\ BothLowered
    /\ lw_inst.type = "PRIM_FADD"
    /\ ~lw_inst.out
    /\ lw_inst.cout
    /\ FaddTotal = 2
    /\ CellValues[Pin("Cout")] = 1

\* The one cell a lowering added for the instance.
OnlyCell(res) == res.cells[1]

RegisterPorts(c, ps) ==
    /\ DOMAIN c.ports = ps \cup {"CLK", "D", "Q"}
    /\ c.ports.CLK = <<Pin("Clock")>>
    /\ c.ports.D = <<Pin("Input")>>
    /\ c.ports.Q = <<Pin("Output")>>

\* C12: for PRIM_DFFRS each lowering adds one cell: a plain register when
\* set and reset are both the ground net; an asynchronous-reset register
\* with reset value 0 and the reset net as its reset when only set is
\* ground; one with reset value 1 and the set net as its reset when only
\* reset is ground; a set/reset register on the set and reset nets
\* otherwise.
C12_DffrsDegenerates ==
    (BothLowered /\ lw_inst.type = "PRIM_DFFRS") =>
       LET g == OnlyCell(lw_gates)
           c == OnlyCell(lw_cells)
       IN /\ lw_gates.handled /\ lw_cells.handled
          /\ Len(lw_gates.cells) = 1 /\ Len(lw_cells.cells) = 1
          /\ (lw_inst.set_gnd /\ lw_inst.reset_gnd) =>
                /\ g.fn = "addDffGate" /\ RegisterPorts(g, {})
                /\ c.fn = "addDff" /\ RegisterPorts(c, {})
          /\ (lw_inst.set_gnd /\ ~lw_inst.reset_gnd) =>
                /\ g.fn = "addAdffGate" /\ RegisterPorts(g, {"ARST", "arst_value"})
                /\ g.ports.ARST = <<Pin("Reset")>> /\ g.ports.arst_value = FALSE
                /\ c.fn = "addAdff" /\ RegisterPorts(c, {"ARST", "arst_value"})
                /\ c.ports.ARST = <<Pin("Reset")>> /\ c.ports.arst_value = <<"const", 0>>
          /\ (~lw_inst.set_gnd /\ lw_inst.reset_gnd) =>
                /\ g.fn = "addAdffGate" /\ RegisterPorts(g, {"ARST", "arst_value"})
                /\ g.ports.ARST = <<Pin("Set")>> /\ g.ports.arst_value = TRUE
                /\ c.fn = "addAdff" /\ RegisterPorts(c, {"ARST", "arst_value"})
                /\ c.ports.ARST = <<Pin("Set")>> /\ c.ports.arst_value = <<"const", 1>>
          /\ (~lw_inst.set_gnd /\ ~lw_inst.reset_gnd) =>
                /\ g.fn = "addDffsrGate" /\ RegisterPorts(g, {"SET", "CLR"})
                /\ g.ports.SET = <<Pin("Set")>> /\ g.ports.CLR = <<Pin("Reset")>>
                /\ c.fn = "addDffsr" /\ RegisterPorts(c, {"SET", "CLR"})
                /\ c.ports.SET = <<Pin("Set")>> /\ c.ports.CLR = <<Pin("Reset")>>

C12_Witness ==
    /\ BothLowered
    /\ lw_inst.type = "PRIM_DFFRS"
    /\ ~lw_inst.set_gnd
    /\ lw_inst.reset_gnd
    /\ OnlyCell(lw_cells).fn = "addAdff"
    /\ OnlyCell(lw_gates).fn = "addAdffGate"

(***************************************************************************)
(* Claims about VerificClockEdge.                                          *)
(***************************************************************************)
\* Net w has one driver and it is an inverter.
SinglyInverted(w) == ~ce_drivers[w].multi /\ ce_drivers[w].type = "PRIM_INV"

EdgeReturned == ce_pc = "done" /\ ce_res.outcome = "return"

\* C13: for a PRIM_SVA_POSEDGE node with input S, VerificClockEdge returns
\* the signal of S and posedge when S is not driven by one inverter alone,
\* and the signal of T and negedge when S is driven by one inverter of T
\* alone; the net it returns is never the input of a driver of a
\* multiply-driven S.
C13_PosedgeThroughOneInverter ==
    (EdgeReturned /\ ce_inst.type = "PRIM_SVA_POSEDGE") =>
       LET S == ce_inst.in1
       IN /\ ~SinglyInverted(S) =>
                /\ ce_res.clock_net = S
                /\ ce_res.clock_sig = NetSig(S)
                /\ ce_res.posedge
          /\ SinglyInverted(S) =>
                /\ ce_res.clock_net = ce_drivers[S].in
                /\ ce_res.clock_sig = NetSig(ce_drivers[S].in)
                /\ ~ce_res.posedge
          /\ ce_drivers[S].multi => ce_res.clock_net = S

C13_Witness ==
    /\ EdgeReturned
    /\ ce_inst.type = "PRIM_SVA_POSEDGE"
    /\ SinglyInverted(ce_inst.in1)
    /\ SinglyInverted(ce_drivers[ce_inst.in1].in)
    /\ ce_res.clock_net = ce_drivers[ce_inst.in1].in
    /\ ~ce_res.posedge

(***************************************************************************)
(* Claims about the loop over the instances of a netlist.                  *)
(***************************************************************************)
LoopAt(i) == il_pc = "insts" /\ il_i = i /\ i <= Len(il_insts)

LoopOver == il_pc \in {"sva", "done"}

CellsOf(i) == {k \in 1..Len(il_cells) : il_cells[k].inst = i}

\* The memory ports of the netlist and the least of their widths.
PortsOfRam == {k \in 1..Len(il_insts) : il_insts[k].type \in MemPortTypes}

MinPortWidth ==
    CHOOSE w \in {il_insts[k].width : k \in PortsOfRam} :
        \A k \in PortsOfRam : w <= il_insts[k].width

\* The turn of the loop for a port of another width than the memory ends
\* in log_error and adds nothing.
AsymmetricIsFatal ==
    \A k \in PortsOfRam :
       (LoopAt(k) /\ il_insts[k].width # il_memory.width) =>
          /\ il_pc' = "fatal"
          /\ il_cells' = il_cells

\* C14: the memory made for a RAM net has the least width of the read and
\* write ports on the net as its width; the loop never gets past a port
\* of another width, its turn ends in the asymmetric-memory log_error; the
\* ports it does import have the width of the memory.
C14_AsymmetricMemoryRejected ==
    /\ []((il_ram # NoRam /\ ~il_ram.other /\ il_pc # "nets") =>
             /\ il_memory.width = MinPortWidth
             /\ \A k \in PortsOfRam :
                   il_insts[k].width # il_memory.width =>
                      /\ il_i <= k
                      /\ CellsOf(k) = {}
             /\ \A c \in 1..Len(il_cells) : il_cells[c].ports.WIDTH = il_memory.width)
    /\ [][AsymmetricIsFatal]_vars

C14_Witness ==
    /\ il_pc = "fatal"
    /\ Len(il_insts) = 2
    /\ il_insts[1].type = "OPER_WRITE_PORT" /\ il_insts[1].width = 1
    /\ il_insts[2].type = "OPER_READ_PORT" /\ il_insts[2].width = 2
    /\ il_memory.width = 1
    /\ il_i = 2
    /\ Len(il_cells) = 1

\* A primitive that import_netlist has no branch for, that the lowering
\* of the mode does not take and that is no SVA or PSL kind.
Unhandled(inst) ==
    /\ IsPrimitive(inst)
    /\ inst.type \notin SvaPslPrims \cup {"PRIM_PWR", "PRIM_BUF"}
    /\ ~(IF il_modes.mode_gates THEN ImportNetlistInstanceGates(inst).handled
         ELSE ImportNetlistInstanceCells(inst).handled)

\* The turn for instance i ends in log_error without a cell (default), or
\* warns, adds one cell marked keep and puts the view into nl_todo (-k).
ErrorOrKeptCell(i) ==
    IF ~il_modes.mode_keep
    THEN /\ il_pc' = "fatal"
         /\ il_cells' = il_cells
    ELSE /\ il_pc' = "insts"
         /\ il_warn' = Append(il_warn, "Unsupported Verific primitive")
         /\ Len(il_cells') = Len(il_cells) + 1
         /\ il_cells'[Len(il_cells')].inst = i
         /\ il_cells'[Len(il_cells')].fn = "addCell"
         /\ il_cells'[Len(il_cells')].keep
         /\ il_insts[i].type \in il_todo'

\* C16 as stated: every turn for an unhandled primitive that is no SVA or
\* PSL kind ends in log_error without a cell in default mode, and in -k
\* mode warns, adds one cell marked keep and adds the view to nl_todo.
C16_UnhandledPrimitive ==
    [][\A i \in 1..Len(il_insts) :
          (LoopAt(i) /\ Unhandled(il_insts[i])) => ErrorOrKeptCell(i)]_vars

\* The turn for instance i does nothing but go on to the next instance.
Skipped(i) ==
    /\ il_pc' = "insts"
    /\ il_i' = i + 1
    /\ UNCHANGED <<il_cells, il_conns, il_sva, il_past_ffs, il_todo, il_warn, il_calls>>

\* C16, amended: as stated for every unhandled primitive other than
\* PRIM_HDL_ASSERTION; the turn for a PRIM_HDL_ASSERTION is skipped in both
\* modes, with no error, no warning, no cell and nothing added to nl_todo.
C16_UnhandledPrimitiveButHdlAssertion ==
    [][\A i \in 1..Len(il_insts) :
          (LoopAt(i) /\ Unhandled(il_insts[i])) =>
             IF il_insts[i].type = "PRIM_HDL_ASSERTION" THEN Skipped(i)
             ELSE ErrorOrKeptCell(i)]_vars

C16_Witness ==
    /\ il_pc = "done"
    /\ il_modes.mode_keep
    /\ il_modes.mode_gates
    /\ Len(il_insts) = 2
    /\ il_insts[1].type = "PRIM_HDL_ASSERTION"
    /\ il_insts[2].type = "PRIM_DLATCHRS"
    /\ CellsOf(1) = {}
    /\ \E k \in CellsOf(2) : il_cells[k].keep
    /\ il_todo = {"PRIM_DLATCHRS"}
    /\ Len(il_warn) = 1

Immediates == {k \in 1..Len(il_insts) : il_insts[k].type \in ImmediateTypes}

ConstraintFn(t) ==
    CASE t = "PRIM_SVA_IMMEDIATE_ASSERT" -> "addAssert"
      [] t = "PRIM_SVA_IMMEDIATE_ASSUME" -> "addAssume"
      [] t = "PRIM_SVA_IMMEDIATE_COVER" -> "addCover"

C18_NoSvappImpliesNoSva ==
    /\ "-nosvapp" \in il_args => (il_modes.mode_nosvapp /\ il_modes.mode_nosva)
    /\ il_modes.mode_nosvapp => il_modes.mode_nosva
    /\ il_modes.mode_nosva =>
          /\ \A c \in il_calls : c[1] \in {"svapp_assert", "svapp_assume", "svapp_cover"}
          /\ il_past_ffs = {}
          /\ \A k \in 1..Len(il_cells) :
                il_cells[k].fn \notin {"addDff", "addAssert", "addAssume", "addCover"}
                   \/ il_insts[il_cells[k].inst].type \in ImmediateTypes
    /\ il_modes.mode_nosvapp => il_calls = {}

C18_Witness ==
    /\ il_pc = "done"
    /\ il_args = {"-nosvapp"}
    /\ Len(il_insts) = 2
    /\ il_insts[1].type = "PRIM_SVA_PAST"
    /\ il_insts[2].type = "PRIM_SVA_ASSERT"
    /\ il_sva["sva_asserts"] = {2}
    /\ il_calls = {}
    /\ il_cells = <<>>

(***************************************************************************)
(* Claims about the import work-list.                                      *)
(***************************************************************************)

\* The number of hierarchical instances of N inside the netlists imported by this run.
InstCount(N) ==
    SumOver({p \in Pairs : p[1] \in imported /\ p[2] = N}, refs)

\* C1: after a completed import run, every netlist N referenced by k > 1
\* hierarchical instances of imported netlists has had import_netlist called
\* exactly once, the design holds exactly one module for N, and exactly k
\* cells have that module's name as their type.
C1_MemoizedHierarchy ==
    status = "done" =>
        \A N \in Netlists :
            InstCount(N) > 1 =>
                /\ calls[N] = 1
                /\ Cardinality({i \in DOMAIN design : design[i] = ModuleName(N)}) = 1
                /\ Cardinality({c \in cells : c.type = ModuleName(N)}) = InstCount(N)

\* A completed run in which a netlist with two or more instances came back
\* into the work-list after it was done.
C1_Witness ==
    /\ status = "done"
    /\ \E N \in Netlists : InstCount(N) > 1 /\ N \in skipped /\ N \in imported

\* The call of import_netlist that this step makes is for netlist nl.
CallsImport(nl) == status = "running" /\ calls'[nl] = calls[nl] + 1

\* C15: a call of import_netlist for a netlist whose module name is in the
\* design ends in the re-definition error when the netlist is no operator
\* netlist; when it is one, the call returns and has added no module,
\* left the modules and their cells as they were and added nothing to
\* nl_todo.
C15_RedefinitionOrSilentReturn ==
    [][\A nl \in Netlists :
          (CallsImport(nl) /\ DesignHas(ModuleName(nl))) =>
             /\ design' = design
             /\ cells' = cells
             /\ imported' = imported
             /\ nl_todo' \subseteq nl_todo
             /\ status' = IF is_operator[nl] THEN "running" ELSE "fatal"]_vars

C15_Witness ==
    /\ status = "done"
    /\ \E nl \in Netlists :
          /\ is_operator[nl]
          /\ calls[nl] = 1
          /\ nl \notin imported
          /\ DesignHas(ModuleName(nl))
          /\ \E c \in cells : c.type = ModuleName(nl)

\* The netlists whose import_netlist call did not return.
Failed == {nl \in Netlists : calls[nl] > 0 /\ nl \notin nl_done}

\* Once a call of import_netlist has failed the run is over: no call is
\* made and nothing is imported any more.
RunStopped == Failed # {} => UNCHANGED <<calls, design, cells, nl_todo, nl_done, imported>>

\* C20 as stated: a fatal error in import_netlist stops the run, no call
\* is made for a netlist still in nl_todo, and the design has no module
\* with the name of the netlist whose import failed.
C20_NoModuleForFailedNetlist ==
    /\ [](Failed # {} =>
             /\ status = "fatal"
             /\ \A nl \in nl_todo \ Failed : NotDone(nl) => calls[nl] = 0
             /\ \A nl \in Failed : ~DesignHas(ModuleName(nl)))
    /\ [][RunStopped]_vars

\* C20, amended: a fatal error in import_netlist stops the run and no call
\* is made for a netlist still in nl_todo; when the error is raised the
\* design has a module with the name of the failed netlist: the module
\* that was there before for the re-definition error, and the module this
\* call made, with the cells added so far, for a later error.
C20_FatalStopsRunModuleStays ==
    /\ [](Failed # {} =>
             /\ status = "fatal"
             /\ Cardinality(Failed) = 1
             /\ \A nl \in nl_todo \ Failed : NotDone(nl) => calls[nl] = 0
             /\ \A nl \in Failed :
                   /\ Cardinality({i \in DOMAIN design : design[i] = ModuleName(nl)}) = 1
                   /\ nl \notin imported => \A c \in cells : c.module # ModuleName(nl)
                   /\ nl \in imported =>
                         {c \in cells : c.module = ModuleName(nl)} \subseteq NewCells(nl))
    /\ [][RunStopped]_vars

C20_Witness ==
    /\ status = "fatal"
    /\ \E nl \in Failed :
          /\ nl \in imported
          /\ DesignHas(ModuleName(nl))
          /\ \E c \in cells : c.module = ModuleName(nl)
    /\ \E n \in nl_todo \ Failed : NotDone(n) /\ calls[n] = 0

\* The state of run when parse_sequence(seq, sequence_net) has returned.
Parsed ==
    ParseSequence([seq |-> NewSeq, cells |-> <<>>, log |-> <<>>, err |-> "",
                   warn |-> 0, wires |-> 0], sva_prop.ast, 1)

\* The cell type that goes with the mode flag of the root.
ConstraintType ==
    CASE sva_prop.kind = "assert" -> "$assert"
      [] sva_prop.kind = "assume" -> "$assume"
      [] sva_prop.kind = "cover" -> "$cover"

ConstraintCells ==
    CellsOfType("$assert") \cup CellsOfType("$assume") \cup CellsOfType("$cover")

\* C19: when run returns for a clocked assert, assume or cover root,
\* exactly one sequence_ff call was made after parse_sequence returned for
\* the whole sequence; it added one register for the active signal and one
\* for the enabled signal of the compiled sequence (the enabled signal
\* behind the disable_iff multiplexer when there is one) and nothing else;
\* after it exactly one cell of type $assert, $assume or $cover was added,
\* of the type of the mode flag, with the outputs of those two registers
\* at A and EN, and it is the only such cell of the module.
C19_FinalStepThenOneConstraint ==
    sva_pc = "done" =>
       LET n == Len(sva_cells)
           k == Len(Parsed.log)
           m == Len(Parsed.cells)
           muxed == sva_prop.disable # "none"
       IN /\ Parsed.log[k] = <<"ret", 1>>
          /\ Len(sva_log) = k + 1
          /\ SubSeq(sva_log, 1, k) = Parsed.log
          /\ sva_log[k + 1][1] = "ff"
          /\ n = m + (IF muxed THEN 4 ELSE 3)
          /\ SubSeq(sva_cells, 1, m) = Parsed.cells
          /\ sva_cells[n - 2].type = "$dff"
          /\ sva_cells[n - 1].type = "$dff"
          /\ sva_cells[n - 2].a = Parsed.seq.sig_a
          /\ IF muxed
             THEN /\ sva_cells[n - 3].type = "$mux"
                  /\ sva_cells[n - 3].a = Parsed.seq.sig_en
                  /\ sva_cells[n - 3].b = S0
                  /\ sva_cells[n - 3].s = DisableIff
                  /\ sva_cells[n - 1].a = sva_cells[n - 3].y
             ELSE sva_cells[n - 1].a = Parsed.seq.sig_en
          /\ sva_cells[n - 2].y # sva_cells[n - 1].y
          /\ ConstraintCells = {n}
          /\ sva_cells[n].type = ConstraintType
          /\ sva_cells[n].a = sva_cells[n - 2].y
          /\ sva_cells[n].b = sva_cells[n - 1].y

\* A cover root with disable iff over a non-overlapped implication: the
\* sequence has a register pair of its own before the final one.
C19_Witness ==
    /\ sva_pc = "done"
    /\ sva_prop.kind = "cover"
    /\ sva_prop.disable = "disable_iff"
    /\ sva_prop.ast[1] = "SVA_NON_OVERLAPPED_IMPLICATION"
    /\ Cardinality(CellsOfType("$dff")) = 4
    /\ CellsOfType("$cover") = {Len(sva_cells)}

\* The node is one of the idioms VerificClockEdge knows: the edge operator,
\* or an AND whose inputs fit one of the four patterns on a net.
EdgeIdiom(inst) ==
    \/ inst.type = "PRIM_SVA_POSEDGE"
    \/ /\ inst.type = "PRIM_AND"
       /\ \/ VerificFollowInvPslprev(inst.in1) = inst.in2
          \/ VerificFollowInvPslprev(inst.in2) = inst.in1
          \/ /\ VerificFollowPslprev(inst.in1) # NullNet
             /\ VerificFollowPslprev(inst.in1) = VerificFollowInv(inst.in2)
          \/ /\ VerificFollowPslprev(inst.in2) # NullNet
             /\ VerificFollowPslprev(inst.in2) = VerificFollowInv(inst.in1)

\* C21: for a node that is neither the edge operator nor an AND that fits
\* one of the four patterns, VerificClockEdge ends in log_abort: it does
\* not return, with or without a clock signal and polarity, and it does
\* not end in any other way.
C21_NoIdiomAborts ==
    (ce_pc = "done" /\ ~EdgeIdiom(ce_inst)) => ce_res.outcome = "abort"

(***************************************************************************)
(* Claims about one "verific" command.                                     *)
(***************************************************************************)
\* import_netlist was called and the work-list loop is not left yet; a
\* log_error inside import_netlist leaves the netlist in nl_todo.
Importing ==
    /\ cm_snap # NoSnap
    /\ cm_pc \in {"worklist", "svapp"} \/ (cm_pc = "fatal" /\ cm_todo # {})

\* This step is a call of svapp_assert, svapp_assume or svapp_cover.
SvaPPCall == cm_roots'[2] = cm_roots[2] + 1

\* C22: from the first call of import_netlist to the end of the work-list
\* loop the source graph is as that call found it; the elaboration, the
\* flatten loop and the -extnets loop are over before the first call, and
\* the -extnets loop is left only after its turn for the last root
\* netlist; a call of svapp_assert, svapp_assume or svapp_cover leaves the
\* source graph and the module as they are.
C22_NoGraphChangeWhileImporting ==
    /\ [](Importing => cm_graph = cm_snap)
    /\ [](cm_pc \in {"elaborate", "flatten", "extnets"} =>
             /\ cm_snap = NoSnap
             /\ cm_done = {}
             /\ cm_left # {}
             /\ cm_left \subseteq cm_args.names)
    /\ [][(cm_pc = "extnets" /\ cm_pc' # "extnets") =>
             /\ Cardinality(cm_left) = 1
             /\ cm_pc' = "worklist"]_vars
    /\ [][SvaPPCall => (cm_graph' = cm_graph /\ cm_module' = cm_module)]_vars

\* An import_netlist call of a run with -extnets that changed the
\* netlists, after its svapp call, with cells in the module.
C22_Witness ==
    /\ cm_pc = "svapp"
    /\ cm_args.extnets
    /\ cm_roots[2] = 1
    /\ cm_module # {}
    /\ \E i \in 1..Len(cm_snap) : cm_snap[i][1] = "VerificExtNets"

\* The text of the first ERROR or PROGRAM_ERROR message of the command.
FirstError == IF cm_errs = <<>> THEN "" ELSE cm_errs[1]

\* This step is a call of msg_func.
MsgCall == cm_nmsg' = cm_nmsg + 1

\* The latch holds the text of the first ERROR or PROGRAM_ERROR message
\* and nothing else, no message changes or clears it once it is set, and
\* no message of any kind stops the run.
LatchKept ==
    /\ [](verific_error_msg = FirstError)
    /\ [][verific_error_msg # "" => verific_error_msg' = verific_error_msg]_vars
    /\ [][MsgCall => (cm_pc' = cm_pc /\ cm_fatal' = cm_fatal)]_vars

CmdEnded == cm_pc \in {"done", "fatal"}

\* C29 as stated: the latch is set by the first ERROR or PROGRAM_ERROR
\* message only and no later message changes or clears it, no message
\* stops the run, and a command that ends with the latch set ends with a
\* fatal error whose text is the latched message.
C29_EndsWithFirstMessage ==
    /\ LatchKept
    /\ []((CmdEnded /\ verific_error_msg # "") =>
             (cm_pc = "fatal" /\ cm_fatal = verific_error_msg))

\* C29, amended: as above for the latch; a command that reaches
\* check_error with the latch set ends there with a fatal error whose
\* text is the latched message, and a command that ends before
\* check_error ends with the fatal error of the call that failed, with
\* that error's own text, whether the latch is set or not.
C29_CheckErrorReportsFirstMessage ==
    /\ LatchKept
    /\ [][cm_pc = "check_error" =>
             IF verific_error_msg # ""
             THEN cm_pc' = "fatal" /\ cm_fatal' = verific_error_msg
             ELSE cm_pc' = "done" /\ cm_fatal' = ""]_vars
    /\ [][(cm_pc # "check_error" /\ cm_pc' \in {"done", "fatal"}) =>
             (cm_pc' = "fatal" /\ cm_fatal' \notin MsgTexts \cup {""})]_vars
    /\ [](CmdEnded /\ verific_error_msg # "" => cm_pc = "fatal")

\* A command at check_error after two error messages and a warning
\* ended with the first message, the latch still holding it.
C29_Witness ==
    /\ cm_pc = "fatal"
    /\ Len(cm_errs) = 2
    /\ cm_errs[1] # cm_errs[2]
    /\ cm_fatal = cm_errs[1]
    /\ verific_error_msg = cm_errs[1]

\* The bit that drives bit b, through the connections module->connect made.
RECURSIVE DrivenBy(_)
DrivenBy(b) ==
    IF \E pr \in mod_conns : pr[1] = b
    THEN DrivenBy((CHOOSE pr \in mod_conns : pr[1] = b)[2])
    ELSE b

\* The registers of past_ffs that merge_past_ffs removed.
Removed == DOMAIN past_ffs \ Remaining

\* C23: the Q output of every register that merge_past_ffs removed is
\* connected to exactly one bit, a bit of the Q wire of a register that is
\* in the module, has the clock and the clock polarity of the removed one
\* and has at that position a D bit that is the removed register's D bit
\* or, when that was the Q of a register removed earlier, the bit that Q
\* is connected to; the registers removed for one new register all have
\* the same clock and the same polarity.
C23_MergedRegisterKeepsClockAndD ==
    /\ \A i \in Removed :
          /\ Cardinality({pr \in mod_conns : pr[1] = <<QWire(i), 0>>}) = 1
          /\ \E pr \in mod_conns :
                /\ pr[1] = <<QWire(i), 0>>
                /\ \E f \in mod_ffs :
                      /\ f.wire = pr[2][1]
                      /\ f.width > 1
                      /\ pr[2][2] \in 0..(f.width - 1)
                      /\ f.clk = past_ffs[i].clk
                      /\ f.pol = past_ffs[i].pol
                      /\ DrivenBy(f.d[pr[2][2] + 1]) = DrivenBy(past_ffs[i].d)
    /\ \A l \in mg_log : \A a, b \in l.old :
          /\ past_ffs[a].clk = past_ffs[b].clk
          /\ past_ffs[a].pol = past_ffs[b].pol

\* A register merged in the second turn of the loop whose D was the Q of
\* a register merged in the first turn.
C23_Witness ==
    /\ mg_pc = "done"
    /\ \E l \in mg_log : l.iter = 2 /\ \E i \in l.old : past_ffs[i].d[1] = QWire(i - 2)

\* The calls and returns of parse_sequence for node q and the sequence_ff
\* calls outside them, between positions i and j of sva_log.
OperandEvents(i, j, q) ==
    {k \in (i + 1)..(j - 1) : sva_log[k][1] \in {"parse", "ret"} /\ sva_log[k][2] = q}

\* Position k is outside every call of parse_sequence for node q that
\* started after position i.
OutsideOperand(i, k, q) ==
    \/ OperandEvents(i, k, q) = {}
    \/ LET last == CHOOSE x \in OperandEvents(i, k, q) :
                      \A y \in OperandEvents(i, k, q) : y <= x
       IN sva_log[last][1] = "ret"

\* Between the call of parse_sequence at position i for the consecutive
\* repetition p and its return at position j: the operand is compiled
\* times times, with one sequence_ff call right before each compilation
\* but the first and no other sequence_ff call outside the operand.
RepeatCompiled(i, j, p, times) ==
    LET starts == {k \in (i + 1)..(j - 1) : sva_log[k] = <<"parse", 2 * p>>}
        steps == {k \in (i + 1)..(j - 1) :
                     sva_log[k][1] = "ff" /\ OutsideOperand(i, k, 2 * p)}
    IN /\ Cardinality(starts) = times
       /\ Cardinality(steps) = times - 1
       /\ i + 1 \in starts
       /\ \A k \in starts \ {i + 1} : k - 1 \in steps
       /\ \A k \in steps : k + 1 \in starts
       /\ sva_log[j - 1] = <<"ret", 2 * p>>

\* C24: when run returns, every call of parse_sequence for a consecutive
\* repetition with sva:low = sva:high = N compiled the operand N times for
\* N >= 1, with N - 1 sequence_ff calls, one right before each compilation
\* after the first, and once without a sequence_ff call for N <= 1.
C24_RepeatCompilesOperandNTimes ==
    sva_pc = "done" =>
       \A i \in 1..Len(sva_log) :
          (sva_log[i][1] = "parse"
              /\ NodeAt(sva_prop.ast, sva_log[i][2])[1] = "SVA_CONSECUTIVE_REPEAT"
              /\ NodeAt(sva_prop.ast, sva_log[i][2])[2] = NodeAt(sva_prop.ast, sva_log[i][2])[3]) =>
             LET p == sva_log[i][2]
                 N == NodeAt(sva_prop.ast, p)[2]
                 rets == {k \in (i + 1)..Len(sva_log) : sva_log[k] = <<"ret", p>>}
             IN /\ rets # {}
                /\ RepeatCompiled(i, CHOOSE j \in rets : \A y \in rets : j <= y, p,
                                  IF N <= 1 THEN 1 ELSE N)

\* A repetition [*2] at the root: two compilations of the operand, one
\* register pair between them and the final pair.
C24_Witness ==
    /\ sva_pc = "done"
    /\ sva_prop.ast[1] = "SVA_CONSECUTIVE_REPEAT"
    /\ sva_prop.ast[2] = 2
    /\ sva_prop.ast[3] = 2
    /\ Cardinality({k \in 1..Len(sva_log) : sva_log[k] = <<"parse", 2>>}) = 2
    /\ Cardinality(FfCalls) = 2

\* This step is one active clock edge.
ClockStep == sim_cycle' = sim_cycle + 1

\* C25: with a disable iff or abort condition, at every active clock edge
\* the enabled register of every sequence_ff call takes 0 when the disable
\* signal is 1 in that cycle and the value of the enabled signal the call
\* came with otherwise, and the active register takes the value of the
\* active signal the call came with; before the first edge every register
\* holds 0.
C25_DisableForcesEnabledLow ==
    /\ []((sva_pc = "done" /\ sim_cycle = 0) => \A w \in DOMAIN sim_regs : sim_regs[w] = 0)
    /\ []((sva_pc = "done") => DOMAIN sim_regs = UNION {{sva_log[i][2], sva_log[i][2] + 1} : i \in FfCalls})
    /\ [][(ClockStep /\ sva_prop.disable # "none") =>
             \A i \in FfCalls :
                LET call == sva_log[i]
                    inp == sim_hist'[1]
                IN /\ sim_regs'[call[2]] = Eval(call[3], sva_cells, sim_regs, inp)
                   /\ sim_regs'[call[2] + 1] =
                         IF inp[DisableNet] = 1 THEN 0
                         ELSE Eval(call[4], sva_cells, sim_regs, inp)]_vars

\* A cycle with the disable signal at 1 in which a step that came with
\* enabled = 1 and active = 1 registered enabled 0 and active 1.
C25_Witness ==
    /\ sva_pc = "done"
    /\ sva_prop.disable = "disable_iff"
    /\ sim_cycle >= 1
    /\ sim_hist[1][DisableNet] = 1
    /\ \E i \in FfCalls :
          /\ sva_log[i][4] = S1
          /\ sim_regs[sva_log[i][2]] = 1
          /\ sim_regs[sva_log[i][2] + 1] = 0

\* C26: a call of parse_sequence for a primitive it has no case for ends
\* in log_error in default mode, with no cell added; in -k mode it makes
\* one log_warning call and returns with sig_a, sig_en and length of the
\* sequence state as they were, no cell added and no input of the
\* primitive parsed.
C26_UnsupportedOperatorDropped ==
    [][(sva_pc = "parse" /\ sva_pc' # "parse" /\ sva_prop.ast[1] = "SVA_NOT") =>
          /\ sva_cells' = sva_cells
          /\ sva_seq' = sva_seq
          /\ IF sva_prop.keep
             THEN /\ sva_pc' = "returned"
                  /\ sva_warn' = sva_warn + 1
                  /\ sva_log' = <<<<"parse", 1>>, <<"ret", 1>>>>
             ELSE /\ sva_pc' = "fatal"
                  /\ sva_warn' = sva_warn]_vars

\* A call in -k mode for an unsupported primitive, in a sequence state
\* that is not the initial one, has returned.
C26_Witness ==
    /\ sva_pc = "returned"
    /\ sva_prop.keep
    /\ sva_prop.ast[1] = "SVA_NOT"
    /\ sva_warn = 1
    /\ sva_seq = [length |-> 2, sig_a |-> WireSig(1), sig_en |-> WireSig(2)]

\* The work-list loop with one top module, kept running: the loop is
\* sequential code, and each of its iterations ends.
SpecImportFair == InitImportError /\ [][NextImport]_vars /\ WF_vars(NextImport)

\* The netlists reached from the netlists of S in at most k steps, each
\* step going from a netlist of Via to the view of one of its
\* hierarchical instances.
RECURSIVE ReachableFrom(_, _, _)
ReachableFrom(S, Via, k) ==
    IF k = 0 THEN S
    ELSE LET T == S \cup {View(i) : i \in UNION {InstancesOf(n) : n \in S \cap Via}}
         IN IF T = S THEN S ELSE ReachableFrom(T, Via, k - 1)

\* This step is an iteration of the work-list loop that reaches its end.
IterationEnds == status = "running" /\ status' = "running" /\ nl_done' # nl_done

\* This step is an iteration that takes one netlist out of nl_todo and puts
\* it into nl_done.
ErasesOne ==
    \E nl \in nl_todo :
        /\ nl \notin nl_todo'
        /\ nl_done' = nl_done \cup {nl}
        /\ nl_todo' \ nl_todo \subseteq {View(i) : i \in InstancesOf(nl)}

\* The loop ends, each iteration erases one netlist from nl_todo and puts
\* it into nl_done, and import_netlist is called at most once for a netlist.
LoopEnds ==
    /\ <>(status # "running")
    /\ [][IterationEnds => ErasesOne]_vars
    /\ [](\A n \in Netlists : calls[n] <= 1)
    /\ [](status = "done" => nl_todo = {})

\* C27 as stated: the work-list loop ends; each iteration that reaches its
\* end has taken one netlist out of nl_todo and put it into nl_done;
\* import_netlist is called at most once for a netlist; and after the loop
\* nl_todo is empty and every netlist reachable from the top module through
\* hierarchical instances is in nl_done.
C27_AllReachableDone ==
    /\ LoopEnds
    /\ [](status = "done" => ReachableFrom({1}, Netlists, NumNetlists) \subseteq nl_done)

\* C27, amended: as above, with the netlists reachable from the top module
\* through the hierarchical instances of netlists that import_netlist
\* created a module for.
C27_AllReachableThroughImportedDone ==
    /\ LoopEnds
    /\ [](status = "done" => ReachableFrom({1}, imported, NumNetlists) \subseteq nl_done)

\* A completed run in which import_netlist returned at once for an operator
\* netlist, and the view of one of its hierarchical instances was never in
\* nl_todo.
C27_Witness ==
    /\ status = "done"
    /\ nl_todo = {}
    /\ \E n \in nl_done :
          /\ calls[n] = 1
          /\ n \notin imported
          /\ \E i \in InstancesOf(n) : View(i) \notin nl_done

\* The sequence_ff calls that parse_sequence makes for node n and below: the
\* delay of each primitive visited, the operand of a repetition once for
\* each time it is compiled.
RECURSIVE FixedDelays(_)
FixedDelays(n) ==
    LET type == n[1]
        in == n[4]
    IN CASE type = "net" -> 0
         [] type \in {"SVA_OVERLAPPED_IMPLICATION", "IMPL"} ->
               FixedDelays(in[1]) + FixedDelays(in[2])
         [] type \in {"SVA_NON_OVERLAPPED_IMPLICATION", "SUFFIX_IMPL"} ->
               FixedDelays(in[1]) + 1 + FixedDelays(in[2])
         [] type = "SVA_SEQ_CONCAT" ->
               FixedDelays(in[1]) + SvaLow(n) + FixedDelays(in[2])
         [] type = "SVA_CONSECUTIVE_REPEAT" ->
               IF SvaLow(n) <= 1 THEN FixedDelays(in[1])
               ELSE SvaLow(n) * FixedDelays(in[1]) + (SvaLow(n) - 1)
         [] type = "ALWAYS" -> FixedDelays(in[1])
         [] OTHER -> 0

\* The parse_sequence calls that have not returned after the first k events.
Depth(k) ==
    Cardinality({j \in 1..k : sva_log[j][1] = "parse"})
        - Cardinality({j \in 1..k : sva_log[j][1] = "ret"})

\* The event of the call that made the call of event i.
Caller(i) ==
    LET js == {j \in 1..(i - 1) : sva_log[j][1] = "parse" /\ Depth(j) = Depth(i) - 1}
    IN CHOOSE j \in js : \A k \in js : k <= j

\* C28: a parse_sequence call for the root of a property ends; each call
\* it makes is for an input of the primitive of the call that makes it;
\* and when it returns, the number of sequence_ff calls made is the sum of
\* the fixed delays of the primitives visited, the operand of a repetition
\* counted once for each time it is compiled.
C28_ParseEndsDelaysAddUp ==
    /\ <>(sva_pc # "parse")
    /\ [](\A i \in 1..Len(sva_log) :
             (sva_log[i][1] = "parse" /\ sva_log[i][2] # 1) =>
                /\ Depth(i) >= 2
                /\ sva_log[Caller(i)][2] = sva_log[i][2] \div 2
                /\ (sva_log[i][2] % 2) + 1 \in
                      DOMAIN NodeAt(sva_prop.ast, sva_log[i][2] \div 2)[4])
    /\ [](sva_pc = "returned" =>
             /\ Cardinality(FfCalls) = FixedDelays(sva_prop.ast)
             /\ sva_seq.length = FixedDelays(sva_prop.ast)
             /\ Depth(Len(sva_log)) = 0)

\* A returned call for a repetition of two or more whose operand has a
\* delay of its own: the operand's delay is counted once for each time.
C28_Witness ==
    /\ sva_pc = "returned"
    /\ sva_prop.ast[1] = "SVA_CONSECUTIVE_REPEAT"
    /\ SvaLow(sva_prop.ast) = 2
    /\ sva_prop.ast[4][1][1] = "SVA_SEQ_CONCAT"
    /\ SvaLow(sva_prop.ast[4][1]) = 1
    /\ sva_seq.length = 3

\* C30: after a run that reached the end of the work-list loop, the type
\* of every cell made for a hierarchical instance is the name of a module
\* in the design, the name import_netlist makes for the instance's view,
\* and import_netlist was called for the view; and the step that makes the
\* cell puts the view into nl_todo.
C30_CellTypeNamesModule ==
    /\ [](status = "done" =>
             \A c \in cells :
                /\ c.type = ModuleName(View(c.inst))
                /\ DesignHas(c.type)
                /\ calls[View(c.inst)] = 1)
    /\ [][\A c \in cells' \ cells : View(c.inst) \in nl_todo']_vars

\* A completed run with a cell for an instance of an operator netlist and
\* a cell for an instance of another netlist, both views imported by this
\* run.
C30_Witness ==
    /\ status = "done"
    /\ \E c, d \in cells :
          /\ is_operator[View(c.inst)]
          /\ ~is_operator[View(d.inst)]
          /\ {View(c.inst), View(d.inst)} \subseteq imported

====
